---- MODULE Spec2Model ----
(***************************************************************************)
(* Model of the light-beam simulator of src/src/day16.rs: the contraption  *)
(* grid, the element interaction rule, one run of Beams (new /             *)
(* with_start_beam followed by the `while next_bounce()` loop), part1 and   *)
(* part2.                                                                  *)
(***************************************************************************)
EXTENDS Integers, Sequences, FiniteSets, TLC

\* ------------------------------------------------------------------ bounds
\* Largest number of cells (rows * columns) of a grid drawn in Init.
MaxCells == 4
\* Cap on the number of next_bounce calls of one run. It lies above
\* 4 * rows * columns + rows + columns for every grid drawn, so the code never
\* reaches it; it keeps a loop that would not end finite.
MaxTicks == 430

\* day15: the most steps an input text has.
MaxSteps == 3

\* day3: the most lines of a schematic, and the most chars of a line.
MaxLines == 2
MaxWidth == 3

\* day10: the most lines of a pipe text, and the most chars of a line.
MaxPipeRows == 2
MaxPipeColumns == 3

\* day8: the most chars of an instruction line, and a cap on the steps of a
\* walk (a walk that never stands on ZZZ does not end).
MaxInstructions == 2
MaxWalk == 8

\* ------------------------------------------------------------------ values
\* Option<T>: None is the empty sequence, Some(v) the one-element sequence.
None == <<>>

Some(v) == <<v>>

GridElement ==
    {"EmptySpace", "LeftToRightMirror", "RightToLeftMirror",
     "VerticalSplitter", "HorizontalSplitter"}

Direction == {"North", "South", "East", "West"}

MovingBeam(current, direction) == [current |-> current, direction |-> direction]

\* ------------------------------------------------------------------ GridElement
\* Variant: a catch-all arm that takes every other character for EmptySpace.
try_from_lenient(value) ==
    CASE value = "/"  -> Some("LeftToRightMirror")
      [] value = "\\" -> Some("RightToLeftMirror")
      [] value = "|"  -> Some("VerticalSplitter")
      [] value = "-"  -> Some("HorizontalSplitter")
      [] OTHER        -> Some("EmptySpace")

\* TryFrom<char> for GridElement: Some(element), or None for the Err of `bail!`.
try_from(value) ==
    CASE value = "."  -> Some("EmptySpace")
      [] value = "/"  -> Some("LeftToRightMirror")
      [] value = "\\" -> Some("RightToLeftMirror")
      [] value = "|"  -> Some("VerticalSplitter")
      [] value = "-"  -> Some("HorizontalSplitter")
      [] OTHER        -> None

\* (Direction, Option<Direction>) as a pair <<primary, secondary>>; one operator
\* per arm of the match on the element.
\* Variant: '/' turning the way '\' does (the two mirrors confused).
LeftToRightMirror_as_back(direction) ==
    <<CASE direction = "North" -> "West"
        [] direction = "South" -> "East"
        [] direction = "East"  -> "South"
        [] direction = "West"  -> "North", None>>

LeftToRightMirror(direction) ==
    <<CASE direction = "North" -> "East"
        [] direction = "South" -> "West"
        [] direction = "East"  -> "North"
        [] direction = "West"  -> "South", None>>

RightToLeftMirror(direction) ==
    <<CASE direction = "North" -> "West"
        [] direction = "South" -> "East"
        [] direction = "East"  -> "South"
        [] direction = "West"  -> "North", None>>

\* Variant: '|' splitting on the axis '-' splits on (the two splitters confused).
VerticalSplitter_as_horizontal(direction) ==
    CASE direction = "North" -> <<"East", Some("West")>>
      [] direction = "South" -> <<"East", Some("West")>>
      [] direction = "East"  -> <<direction, None>>
      [] direction = "West"  -> <<direction, None>>

VerticalSplitter(direction) ==
    CASE direction = "North" -> <<direction, None>>
      [] direction = "South" -> <<direction, None>>
      [] direction = "East"  -> <<"North", Some("South")>>
      [] direction = "West"  -> <<"North", Some("South")>>

\* Variant: '-' letting every ray pass unchanged.
HorizontalSplitter_never_splits(direction) == <<direction, None>>

HorizontalSplitter(direction) ==
    CASE direction = "North" -> <<"East", Some("West")>>
      [] direction = "South" -> <<"East", Some("West")>>
      [] direction = "East"  -> <<direction, None>>
      [] direction = "West"  -> <<direction, None>>

get_next_direction(element, direction) ==
    CASE element = "EmptySpace"         -> <<direction, None>>
      [] element = "LeftToRightMirror"  -> LeftToRightMirror(direction)
      [] element = "RightToLeftMirror"  -> RightToLeftMirror(direction)
      [] element = "VerticalSplitter"   -> VerticalSplitter(direction)
      [] element = "HorizontalSplitter" -> HorizontalSplitter(direction)

\* ------------------------------------------------------------------ Contraption
\* Variant: the two parts of the index confused, the column selecting the row.
get_transposed(contraption, index) ==
    IF index[1] + 1 \in DOMAIN contraption
       /\ index[2] + 1 \in DOMAIN contraption[index[1] + 1]
    THEN Some(contraption[index[1] + 1][index[2] + 1])
    ELSE None

\* Variant: an index past the last row or column clamped to it instead of
\* answered with None.
get_clamped(contraption, index) ==
    IF contraption = <<>> \/ contraption[1] = <<>>
    THEN None
    ELSE Some(contraption
                [IF index[2] + 1 > Len(contraption)
                 THEN Len(contraption) ELSE index[2] + 1]
                [IF index[1] + 1 > Len(contraption[1])
                 THEN Len(contraption[1]) ELSE index[1] + 1])

\* The grid is a sequence of rows (Vec<Vec<GridElement>>); a position is
\* <<column, row>>, 0-indexed as in the source.
get(contraption, index) ==
    IF index[2] + 1 \in DOMAIN contraption
       /\ index[1] + 1 \in DOMAIN contraption[index[2] + 1]
    THEN Some(contraption[index[2] + 1][index[1] + 1])
    ELSE None

\* FromStr for Contraption, on the lines of the text (each a sequence of chars):
\* Some(grid), or None when a char of a line fails to convert.
from_str(lines) ==
    IF \E y \in DOMAIN lines : \E x \in DOMAIN lines[y] :
          try_from(lines[y][x]) = None
    THEN None
    ELSE Some([y \in DOMAIN lines |->
                 [x \in DOMAIN lines[y] |-> try_from(lines[y][x])[1]]])

num_rows(contraption) == Len(contraption)

\* Variant: the column count taken from the number of rows.
num_columns_as_rows(contraption) == Len(contraption)

num_columns(contraption) ==
    IF 1 \in DOMAIN contraption THEN Len(contraption[1]) ELSE 0

\* ------------------------------------------------------------------ MovingBeam
\* Variant: the extra beam built with the beam's own new direction
\* (`direction: self.direction`) instead of the split direction.
turn_extra_same_direction(current, nd) ==
    [beam  |-> MovingBeam(current, nd[1]),
     loc   |-> Some(current),
     extra |-> IF nd[2] # None THEN Some(MovingBeam(current, nd[1])) ELSE None]

\* Variant: the extra beam is made one cell ahead of the splitter, in its own
\* direction.
turn_extra_advanced(current, nd) ==
    [beam  |-> MovingBeam(current, nd[1]),
     loc   |-> Some(current),
     extra |-> IF nd[2] = None THEN None
               ELSE IF nd[2][1] = "South"
                    THEN Some(MovingBeam(<<current[1], current[2] + 1>>, "South"))
               ELSE Some(MovingBeam(<<current[1] + 1, current[2]>>, nd[2][1]))]

\* The tail of get_next_location once the element is known: the beam takes the
\* primary direction, the split direction becomes the extra beam.
turn(current, nd) ==
    [beam  |-> MovingBeam(current, nd[1]),
     loc   |-> Some(current),
     extra |-> IF nd[2] # None THEN Some(MovingBeam(current, nd[2][1])) ELSE None]

\* get_next_location after `self.current = ...`: the let-else on contraption.get.
enter(beam, current, element) ==
    IF element = None
    THEN [beam |-> MovingBeam(current, beam.direction), loc |-> None, extra |-> None]
    ELSE turn(current, get_next_direction(element[1], beam.direction))

\* Variant: no early return at row 0 / column 0, the coordinate saturating at 0
\* instead (saturating_sub in place of the check).
get_next_location_saturating(beam, contraption) ==
    LET x == beam.current[1]
        y == beam.current[2]
        current == CASE beam.direction = "North" -> <<x, IF y = 0 THEN 0 ELSE y - 1>>
                     [] beam.direction = "South" -> <<x, y + 1>>
                     [] beam.direction = "East"  -> <<x + 1, y>>
                     [] beam.direction = "West"  -> <<IF x = 0 THEN 0 ELSE x - 1, y>>
    IN  enter(beam, current, get(contraption, current))

\* Variant: the coordinates confused, East stepping along the column and South
\* along the row.
get_next_location_transposed(beam, contraption) ==
    LET x == beam.current[1]
        y == beam.current[2]
        blocked == \/ (beam.direction = "North" /\ y = 0)
                   \/ (beam.direction = "West" /\ x = 0)
        current == CASE beam.direction = "North" -> <<x, y - 1>>
                     [] beam.direction = "South" -> <<x + 1, y>>
                     [] beam.direction = "East"  -> <<x, y + 1>>
                     [] beam.direction = "West"  -> <<x - 1, y>>
    IN  IF blocked
        THEN [beam |-> beam, loc |-> None, extra |-> None]
        ELSE enter(beam, current, get(contraption, current))

\* get_next_location mutates the beam and returns (Option<location>, Option<Self>):
\* here the mutated beam, the location and the extra beam together.
get_next_location(beam, contraption) ==
    LET x == beam.current[1]
        y == beam.current[2]
        blocked == \/ (beam.direction = "North" /\ y = 0)
                   \/ (beam.direction = "West" /\ x = 0)
        current == CASE beam.direction = "North" -> <<x, y - 1>>
                     [] beam.direction = "South" -> <<x, y + 1>>
                     [] beam.direction = "East"  -> <<x + 1, y>>
                     [] beam.direction = "West"  -> <<x - 1, y>>
    IN  IF blocked
        THEN [beam |-> beam, loc |-> None, extra |-> None]
        ELSE enter(beam, current, get(contraption, current))

\* ------------------------------------------------------------------ state
VARIABLES
    content,         \* the text handed to the parser, as its lines of chars
    contraption,     \* the parsed grid, read-only during a run
    beams,           \* Beams.beams: the active rays, in Vec order
    energized,       \* Beams.energized
    previous_steps,  \* Beams.previous_steps
    pc,              \* "input" | "start" | "run" | "done" | "panic" | "error"
                     \* | "part2" (head of part2's loop) | "returned"
    entry,           \* what built the run: "new" | "with_start_beam" | "part2"
    start,           \* the start beam handed to the constructor
    result,          \* energized.len() once the loop has ended
    ticks,           \* number of next_bounce calls so far
    last,            \* observation of the latest next_bounce call
    interactions,    \* the get_next_direction calls of the latest operation
    ever_active,     \* every beam that has been in `beams` during the run
    split_cells,     \* every cell at which a ray of the run has split
    lookups,         \* the Contraption::get calls of the latest operation
    start_beams,     \* part2: the start beams not yet run, in Vec order
    part2_energized, \* part2: its local `energized`, the best count so far
    finished,        \* part2: (start beam, count) of the runs done, in order
    previous         \* the count of the first run, when a run is repeated

day16_vars ==
    <<content, contraption, beams, energized, previous_steps, pc, entry, start,
      result, ticks, last, interactions, ever_active, split_cells, lookups,
      start_beams, part2_energized, finished, previous>>

\* The days are separate programs (main.rs runs one day; each test calls one
\* day's functions): each has its own state, and a run of one day leaves the
\* state of the others as it is.
VARIABLES
    input,           \* day15: the text handed to part2, as its chars
    operations,      \* day15: the Vec<SequenceOperation> parsed from it
    consumed,        \* day15: how many operations build_lens_hashmap has taken
    boxes,           \* day15: `boxes` of build_lens_hashmap
    day15_pc,        \* "idle" | "input" | "parsed" | "build" | "built" |
                     \* "returned" | "panic" (expect) | "unwrap_err" (unwrap)
    day15_result     \* day15: what part2 returns

day15_vars == <<input, operations, consumed, boxes, day15_pc, day15_result>>

day15_idle ==
    /\ input = <<>>
    /\ operations = <<>>
    /\ consumed = 0
    /\ boxes = <<>>
    /\ day15_pc = "idle"
    /\ day15_result = None

VARIABLES
    schematic,       \* day3: the input text, as its lines of chars
    engine_lines,    \* day3: the EngineLine parsed from each line
    sum,             \* day3: `sum` of part1
    line_index,      \* day3: where part1's running loop stands (from 1)
    day3_pc,         \* "idle" | "input" | "same_line" | "interline" | "returned"
    day3_result      \* day3: what part1 returns

day3_vars == <<schematic, engine_lines, sum, line_index, day3_pc, day3_result>>

day3_idle ==
    /\ schematic = <<>>
    /\ engine_lines = <<>>
    /\ sum = 0
    /\ line_index = 0
    /\ day3_pc = "idle"
    /\ day3_result = None

VARIABLES
    pipe_text,       \* day10: the input text, as its lines of chars
    tiles,           \* day10: Grid.tiles
    stack,           \* day10: `stack` of get_loop_length: (prev, current, depth)
    discovered,      \* day10: `discovered` of get_loop_length
    first,           \* day10: `first` of get_loop_length
    day10_pc,        \* "idle" | "input" | "parsed" | "loop" | "returned" | "panic"
    day10_result     \* day10: what part1 returns

day10_vars ==
    <<pipe_text, tiles, stack, discovered, first, day10_pc, day10_result>>

day10_idle ==
    /\ pipe_text = <<>>
    /\ tiles = <<>>
    /\ stack = <<>>
    /\ discovered = {}
    /\ first = TRUE
    /\ day10_pc = "idle"
    /\ day10_result = None

VARIABLES
    instruction_line,  \* day8: the first line of the input, as its chars
    node_descriptions, \* day8: the NodeDescription of each node line
    instructions,      \* day8: Map.instructions
    network,           \* day8: Map.network
    current_node,      \* day8: `current_node` of get_num_steps, as its index
    num_steps,         \* day8: `num_steps` of get_num_steps
    instruction_index, \* day8: where the for loop of get_num_steps stands
    day8_pc,           \* "idle" | "input" | "parsed" | "walk" | "returned" | "panic"
    day8_result        \* day8: what part1 returns

day8_vars ==
    <<instruction_line, node_descriptions, instructions, network, current_node,
      num_steps, instruction_index, day8_pc, day8_result>>

day8_idle ==
    /\ instruction_line = <<>>
    /\ node_descriptions = <<>>
    /\ instructions = <<>>
    /\ network = <<>>
    /\ current_node = 0
    /\ num_steps = 0
    /\ instruction_index = 0
    /\ day8_pc = "idle"
    /\ day8_result = None

not_day16 == <<day15_vars, day3_vars, day10_vars, day8_vars>>

not_day15 == <<day16_vars, day3_vars, day10_vars, day8_vars>>

not_day3 == <<day16_vars, day15_vars, day10_vars, day8_vars>>

not_day10 == <<day16_vars, day15_vars, day3_vars, day8_vars>>

not_day8 == <<day16_vars, day15_vars, day3_vars, day10_vars>>

vars == <<day16_vars, day15_vars, day3_vars, day10_vars, day8_vars>>

Range(s) == {s[i] : i \in DOMAIN s}

\* ------------------------------------------------------------------ Beams
\* Variant: the visited check never finds the beam.
contains_step_never(steps, beam) == FALSE

\* Variant: the visited check looks at the position alone.
contains_step_by_position(steps, beam) ==
    \E seen \in steps : seen.current = beam.current

\* `previous_steps.contains(&beam)` of next_bounce.
contains_step(steps, beam) == beam \in steps

\* Variant: the beam is not recorded.
insert_step_skipped(steps, beam) == steps

\* `previous_steps.insert(*beam)` of next_bounce.
insert_step(steps, beam) == steps \cup {beam}

\* The body of the closure once get_next_location has returned `r` and the match
\* on next_location has decided `keep`. `st` carries what the closure captures
\* (previous_steps, locations_to_add, beams_to_add), the beams retained so far,
\* and one observation record per processed beam.
retain_update(st, beam0, r, keep) ==
    LET ps   == IF keep THEN insert_step(st.previous_steps, r.beam)
                        ELSE st.previous_steps
        locs == IF keep THEN st.locations_to_add \cup {r.loc[1]}
                        ELSE st.locations_to_add
    IN  [kept             |-> IF keep THEN Append(st.kept, r.beam) ELSE st.kept,
         previous_steps   |-> ps,
         locations_to_add |-> locs,
         beams_to_add     |-> IF r.extra # None
                              THEN Append(st.beams_to_add, r.extra[1])
                              ELSE st.beams_to_add,
         steps            |-> Append(st.steps,
                                [from |-> beam0, to |-> r.beam, loc |-> r.loc,
                                 extra |-> r.extra, kept |-> keep,
                                 seen |-> st.previous_steps, seen_after |-> ps,
                                 locs |-> st.locations_to_add,
                                 locs_after |-> locs])]

\* The match on next_location: Some(location) keeps the beam unless it is in
\* previous_steps, None drops it.
retain_match(st, beam0, r) ==
    retain_update(st, beam0, r,
                  r.loc # None /\ ~contains_step(st.previous_steps, r.beam))

\* The closure handed to retain_mut, applied to one beam.
retain_closure(st, beam0, grid) ==
    retain_match(st, beam0, get_next_location(beam0, grid))

\* Vec::retain_mut: the closure applied to every beam in order.
RECURSIVE retain_mut(_, _, _, _)
retain_mut(bs, i, st, grid) ==
    IF i > Len(bs) THEN st
    ELSE retain_mut(bs, i + 1, retain_closure(st, bs[i], grid), grid)

\* Variant: energized replaced by the locations of this tick instead of extended.
extend_energized_replace(old, locations_to_add) == locations_to_add

\* energized after `self.energized.extend(locations_to_add)`.
extend_energized(old, locations_to_add) == old \cup locations_to_add

\* beams after `self.beams.extend(beams_to_add)`.
extend_beams(kept, beams_to_add) == kept \o beams_to_add

\* next_bounce after retain_mut: the two extends and the return value.
extend_all(en, st, nb) ==
    [beams          |-> nb,
     energized      |-> extend_energized(en, st.locations_to_add),
     previous_steps |-> st.previous_steps,
     steps          |-> st.steps,
     added          |-> st.beams_to_add,
     ret            |-> nb # <<>>]

after_retain(en, st) == extend_all(en, st, extend_beams(st.kept, st.beams_to_add))

\* The whole of next_bounce on a Beams value: the new fields and the return value.
bounce(grid, bs, en, ps) ==
    after_retain(en,
        retain_mut(bs, 1,
            [kept |-> <<>>, previous_steps |-> ps, locations_to_add |-> {},
             beams_to_add |-> <<>>, steps |-> <<>>], grid))

NoTick ==
    [beams |-> <<>>, energized |-> {}, previous_steps |-> {}, split_cells |-> {},
     steps |-> <<>>, added |-> <<>>, ret |-> TRUE]

\* One call of Contraption::get: the index asked for and the Option returned.
Lookup(index, element) == [index |-> index, element |-> element]

Interaction(element, incoming, nd) ==
    [element |-> element, incoming |-> incoming, outgoing |-> nd[1],
     secondary |-> nd[2]]

\* get_num_energized on a Beams value given by its fields: the loop
\* `while beams.next_bounce() {}` and then `beams.energized.len()`.
RECURSIVE get_num_energized(_, _, _, _)
get_num_energized(grid, bs, en, ps) ==
    LET b == bounce(grid, bs, en, ps)
    IN  IF b.ret
        THEN get_num_energized(grid, b.beams, b.energized, b.previous_steps)
        ELSE Cardinality(b.energized)

\* The Beams value with_start_beam returns for a start on the grid, by its fields.
Beams_of(start_beam, nd) ==
    [beams          |-> IF nd[2] # None
                        THEN <<MovingBeam(start_beam.current, nd[1]),
                               MovingBeam(start_beam.current, nd[2][1])>>
                        ELSE <<MovingBeam(start_beam.current, nd[1])>>,
     energized      |-> {start_beam.current},
     previous_steps |-> IF nd[2] # None
                        THEN {MovingBeam(start_beam.current, nd[1]),
                              MovingBeam(start_beam.current, nd[2][1])}
                        ELSE {MovingBeam(start_beam.current, nd[1])}]

\* One pass of the body of part2's loop on its own: with_start_beam on the grid,
\* then get_num_energized.
count_from(grid, start_beam) ==
    LET b == Beams_of(start_beam,
                      get_next_direction(get(grid, start_beam.current)[1],
                                         start_beam.direction))
    IN  get_num_energized(grid, b.beams, b.energized, b.previous_steps)

\* ------------------------------------------------------------------ inputs
Chars == {".", "/", "\\", "|", "-"}

\* A character that is none of the five symbols.
OtherChars == {"#"}

Shapes == {d \in (1..MaxCells) \X (1..MaxCells) : d[1] * d[2] <= MaxCells}

\* A 3x2 text on which the two rays of a split meet again in one cell in the
\* same tick, heading the same way:
\*     /|\
\*     \-/
MeetingText == << <<"/", "|", "\\">>, <<"\\", "-", "/">> >>

\* The reference 10x10 text of the tests (input/day16/test.txt):
\*     .|...\....
\*     |.-.\.....
\*     .....|-...
\*     ........|.
\*     ..........
\*     .........\
\*     ..../.\\..
\*     .-.-/..|..
\*     .|....-|.\
\*     ..//.|....
ReferenceText ==
    <<
     <<".", "|", ".", ".", ".", "\\", ".", ".", ".", ".">>,
     <<"|", ".", "-", ".", "\\", ".", ".", ".", ".", ".">>,
     <<".", ".", ".", ".", ".", "|", "-", ".", ".", ".">>,
     <<".", ".", ".", ".", ".", ".", ".", ".", "|", ".">>,
     <<".", ".", ".", ".", ".", ".", ".", ".", ".", ".">>,
     <<".", ".", ".", ".", ".", ".", ".", ".", ".", "\\">>,
     <<".", ".", ".", ".", "/", ".", "\\", "\\", ".", ".">>,
     <<".", "-", ".", "-", "/", ".", ".", "|", ".", ".">>,
     <<".", "|", ".", ".", ".", ".", "-", "|", ".", "\\">>,
     <<".", ".", "/", "/", ".", "|", ".", ".", ".", ".">>
    >>

\* The empty text: `lines()` yields nothing and the grid has no row.
EmptyText == <<>>

\* The text of one empty line: the grid has one row, of length 0.
BlankLineText == << <<>> >>

\* The lines of every rectangular, non-empty text of at most MaxCells
\* characters, the two texts above, and the two texts without a character.
Texts ==
    UNION {[1..d[2] -> [1..d[1] -> Chars \cup OtherChars]] : d \in Shapes}
        \cup {MeetingText, ReferenceText, EmptyText, BlankLineText}

\* The start beams with_start_beam is tried with: every cell and direction, and the
\* positions one past the last column / row (off-grid starts).
StartBeams(grid) ==
    {MovingBeam(<<x, y>>, d) :
        x \in 0..num_columns(grid), y \in 0..num_rows(grid), d \in Direction}

\* ------------------------------------------------------------------ Init
\* day16 before its input text is read.
day16_init ==
    /\ content = <<>>
    /\ contraption = <<>>
    /\ beams = <<>>
    /\ energized = {}
    /\ previous_steps = {}
    /\ pc = "input"
    /\ entry = "none"
    /\ start = None
    /\ result = None
    /\ ticks = 0
    /\ last = NoTick
    /\ interactions = {}
    /\ ever_active = {}
    /\ split_cells = {}
    /\ lookups = {}
    /\ start_beams = <<>>
    /\ part2_energized = 0
    /\ finished = <<>>
    /\ previous = None

Init == day16_init /\ day15_idle /\ day3_idle /\ day10_idle /\ day8_idle

\* ------------------------------------------------------------------ part2
\* usize::MAX is 2^64 - 1 on a 64-bit target, beyond the integers of the model
\* checker; the greatest value the model can index with stands for it. The code
\* uses a wrapped value only as an index handed to Vec::get.
usize_MAX == 2147483646

\* `a - b` on usize in a build without overflow checks: the difference modulo
\* usize::MAX + 1.
wrapping_sub(a, b) == IF a >= b THEN a - b ELSE usize_MAX - (b - a) + 1

\* The `start_beams` Vec of part2: per row the left cell heading East and the
\* right cell heading West, then per column the top cell heading South and the
\* bottom cell heading North. `num_columns() - 1` and `num_rows() - 1` are usize
\* subtractions, here as they come out when the build does not check overflow.
part2_start_beams(grid) ==
    [i \in 1..(2 * num_rows(grid)) |->
        IF i % 2 = 1
        THEN MovingBeam(<<0, (i - 1) \div 2>>, "East")
        ELSE MovingBeam(<<wrapping_sub(num_columns(grid), 1), (i - 2) \div 2>>,
                        "West")]
    \o
    [i \in 1..(2 * num_columns(grid)) |->
        IF i % 2 = 1
        THEN MovingBeam(<<(i - 1) \div 2, 0>>, "South")
        ELSE MovingBeam(<<(i - 2) \div 2, wrapping_sub(num_rows(grid), 1)>>,
                        "North")]

\* part2 evaluates `num_columns() - 1` once per row and `num_rows() - 1` once per
\* column: one of the subtractions underflows.
part2_underflows(grid) ==
    \/ num_rows(grid) > 0 /\ num_columns(grid) < 1
    \/ num_columns(grid) > 0 /\ num_rows(grid) < 1

\* Variant: the latest count taken instead of the larger one.
max_as_latest(a, b) == b

\* usize::max
max(a, b) == IF a >= b THEN a ELSE b

\* `HashSet::from_iter([start_index])` and `HashSet::from_iter([start_beam])` of
\* the constructors: a new set holding the one item.
\* Variant: the set of the run before kept and extended instead of a new set.
energized_from_iter_shared(start_index) == energized \cup {start_index}

energized_from_iter(start_index) == {start_index}

\* Variant: the set of the run before kept and extended instead of a new set.
previous_steps_from_iter_shared(start_beam) == previous_steps \cup {start_beam}

previous_steps_from_iter(start_beam) == {start_beam}

\* ------------------------------------------------------------------ actions
\* parse_input: `content.parse().unwrap()`, a parse error panics.
parse(lines) ==
    /\ pc = "input"
    /\ content' = lines
    /\ \E parsed \in {from_str(lines)} :
          IF parsed = None
          THEN pc' = "panic" /\ UNCHANGED contraption
          ELSE pc' = "start" /\ contraption' = parsed[1]
    /\ UNCHANGED <<beams, energized, previous_steps, entry, start, result,
                   ticks, last, interactions, ever_active, split_cells,
                   lookups, start_beams, part2_energized, finished, previous>>
    /\ UNCHANGED not_day16

\* Beams::new: the start is (0,0) heading East; `expect` and `assert!` panic.
Beams_new ==
    /\ start' = Some(MovingBeam(<<0, 0>>, "East"))
    /\ lookups' = {Lookup(<<0, 0>>, get(contraption, <<0, 0>>))}
    /\ \E element \in {get(contraption, <<0, 0>>)} :
          IF element = None
          THEN /\ pc' = "panic"
               /\ UNCHANGED <<beams, energized, previous_steps, interactions,
                              ever_active, split_cells>>
          ELSE \E nd \in {get_next_direction(element[1], "East")} :
                  /\ interactions' = {Interaction(element[1], "East", nd)}
                  /\ IF nd[2] # None
                     THEN /\ pc' = "panic"
                          /\ UNCHANGED <<beams, energized, previous_steps,
                                         ever_active, split_cells>>
                     ELSE /\ pc' = "run"
                          /\ beams' = <<MovingBeam(<<0, 0>>, nd[1])>>
                          /\ energized' = energized_from_iter(<<0, 0>>)
                          /\ previous_steps' =
                                previous_steps_from_iter(MovingBeam(<<0, 0>>, nd[1]))
                          /\ ever_active' = {MovingBeam(<<0, 0>>, nd[1])}
                          /\ split_cells' = {}

\* Variant: the start beam taken as it is, the element of the start cell not
\* applied to it.
with_start_beam_bare(start_beam) ==
    /\ start' = Some(start_beam)
    /\ lookups' = {Lookup(start_beam.current,
                           get(contraption, start_beam.current))}
    /\ \E element \in {get(contraption, start_beam.current)} :
          IF element = None
          THEN /\ pc' = IF entry' = "part2" THEN "panic" ELSE "error"
               /\ UNCHANGED <<beams, energized, previous_steps, interactions,
                              ever_active, split_cells>>
          ELSE /\ pc' = "run"
               /\ energized' = energized_from_iter(start_beam.current)
               /\ beams' = <<start_beam>>
               /\ previous_steps' = previous_steps_from_iter(start_beam)
               /\ interactions' = {}
               /\ ever_active' = {start_beam}
               /\ split_cells' = {}

\* Beams::with_start_beam: Err when the start is off the grid; part2 unwraps the
\* Result, so there the Err is a panic.
with_start_beam(start_beam) ==
    /\ start' = Some(start_beam)
    /\ lookups' = {Lookup(start_beam.current,
                           get(contraption, start_beam.current))}
    /\ \E element \in {get(contraption, start_beam.current)} :
          IF element = None
          THEN /\ pc' = IF entry' = "part2" THEN "panic" ELSE "error"
               /\ UNCHANGED <<beams, energized, previous_steps, interactions,
                              ever_active, split_cells>>
          ELSE \E nd \in {get_next_direction(element[1], start_beam.direction)} :
                  /\ pc' = "run"
                  /\ energized' = energized_from_iter(start_beam.current)
                  /\ beams' =
                        IF nd[2] # None
                        THEN <<MovingBeam(start_beam.current, nd[1]),
                               MovingBeam(start_beam.current, nd[2][1])>>
                        ELSE <<MovingBeam(start_beam.current, nd[1])>>
                  /\ previous_steps' =
                        IF nd[2] # None
                        THEN insert_step(
                                previous_steps_from_iter(
                                    MovingBeam(start_beam.current, nd[1])),
                                MovingBeam(start_beam.current, nd[2][1]))
                        ELSE previous_steps_from_iter(
                                MovingBeam(start_beam.current, nd[1]))
                  /\ interactions' =
                        {Interaction(element[1], start_beam.direction, nd)}
                  /\ ever_active' = Range(beams')
                  /\ split_cells' =
                        IF nd[2] # None THEN {start_beam.current} ELSE {}

\* One call of next_bounce by `while beams.next_bounce() {}`; when it returns
\* false the loop ends and energized.len() is the result.
next_bounce ==
    /\ pc = "run"
    /\ ticks < MaxTicks
    /\ \E b \in {bounce(contraption, beams, energized, previous_steps)} :
           /\ beams' = b.beams
           /\ energized' = b.energized
           /\ previous_steps' = b.previous_steps
           /\ last' = [beams |-> beams, energized |-> energized,
                       previous_steps |-> previous_steps,
                       split_cells |-> split_cells, steps |-> b.steps,
                       added |-> b.added, ret |-> b.ret]
           /\ split_cells' =
                 split_cells \cup {s.to.current :
                                     s \in {t \in Range(b.steps) : t.extra # None}}
           /\ interactions' =
                 {Interaction(get(contraption, s.to.current)[1], s.from.direction,
                              <<s.to.direction,
                                IF s.extra = None THEN None
                                ELSE Some(s.extra[1].direction)>>) :
                    s \in {t \in Range(b.steps) : t.loc # None}}
           /\ ever_active' = ever_active \cup Range(b.beams)
           /\ lookups' =
                 {Lookup(s.to.current, get(contraption, s.to.current)) :
                    s \in {t \in Range(b.steps) : t.loc # None \/ t.to # t.from}}
           /\ pc' = IF b.ret THEN "run" ELSE "done"
           /\ result' = IF b.ret THEN None ELSE Some(Cardinality(b.energized))
    /\ ticks' = ticks + 1
    /\ UNCHANGED <<content, contraption, entry, start, start_beams, part2_energized,
                   finished, previous>>
    /\ UNCHANGED not_day16

\* The program on one input text: parse it, then part1, one run from a start
\* beam, or part2.
parse_input == pc = "input" /\ \E lines \in Texts : parse(lines)

\* part1: Beams::new, then the loop (next_bounce).
part1 ==
    /\ pc = "start"
    /\ entry' = "new"
    /\ Beams_new
    /\ UNCHANGED <<content, contraption, result, ticks, last, start_beams,
                   part2_energized, finished, previous>>
    /\ UNCHANGED not_day16

\* One run built by with_start_beam from any start beam.
start_run ==
    /\ pc = "start"
    /\ entry' = "with_start_beam"
    /\ \E sb \in StartBeams(contraption) : with_start_beam(sb)
    /\ UNCHANGED <<content, contraption, result, ticks, last, start_beams,
                   part2_energized, finished, previous>>
    /\ UNCHANGED not_day16

\* The same start run a second time on the same grid by a newly constructed
\* Beams, the count of the first run kept for comparison.
again ==
    /\ pc = "done"
    /\ entry \in {"new", "with_start_beam"}
    /\ previous = None
    /\ previous' = result
    /\ result' = None
    /\ ticks' = 0
    /\ entry' = entry
    /\ IF entry = "new" THEN Beams_new ELSE with_start_beam(start[1])
    /\ UNCHANGED <<content, contraption, last, start_beams, part2_energized, finished>>
    /\ UNCHANGED not_day16

\* part2 up to its last loop: `energized = 0` and the start_beams Vec. An
\* underflowing subtraction panics in a build with overflow checks (debug) and
\* wraps in a build without (release).
part2_begin ==
    /\ pc = "start"
    /\ entry' = "part2"
    /\ part2_energized' = 0
    /\ \/ /\ start_beams' = part2_start_beams(contraption)
          /\ pc' = "part2"
       \/ /\ part2_underflows(contraption)
          /\ start_beams' = start_beams
          /\ pc' = "panic"
    /\ UNCHANGED <<content, contraption, beams, energized, previous_steps, start, result,
                   ticks, last, interactions, ever_active, split_cells, lookups,
                   finished, previous>>
    /\ UNCHANGED not_day16

\* `for start_beam in start_beams`: the next start beam is handed to
\* with_start_beam, or the loop is over and part2 returns `energized`.
part2_loop ==
    /\ pc = "part2"
    /\ entry' = entry
    /\ IF start_beams = <<>>
       THEN /\ pc' = "returned"
            /\ result' = Some(part2_energized)
            /\ UNCHANGED <<beams, energized, previous_steps, start, interactions,
                           ever_active, split_cells, lookups, start_beams>>
       ELSE /\ with_start_beam(Head(start_beams))
            /\ start_beams' = Tail(start_beams)
            /\ result' = None
    /\ UNCHANGED <<content, contraption, ticks, last, part2_energized, finished, previous>>
    /\ UNCHANGED not_day16

\* `energized = energized.max(get_num_energized(&mut beams))` once the run has
\* ended; the Beams value is dropped at the end of the loop body.
part2_max ==
    /\ pc = "done"
    /\ entry = "part2"
    /\ part2_energized' = max(part2_energized, result[1])
    /\ finished' = Append(finished, [start_beam |-> start[1],
                                     energized  |-> result[1]])
    /\ pc' = "part2"
    /\ result' = None
    /\ ticks' = 0
    /\ UNCHANGED <<content, contraption, beams, energized, previous_steps, entry, start,
                   last, interactions, ever_active, split_cells, lookups,
                   start_beams, previous>>
    /\ UNCHANGED not_day16

Next ==
    \/ parse_input
    \/ part1
    \/ start_run
    \/ again
    \/ part2_begin
    \/ part2_loop
    \/ part2_max
    \/ next_bounce

Spec == Init /\ [][Next]_vars

\* ------------------------------------------------------------------ day15
\* A &str is the sequence of its chars, every char a one-char string.
\* `c as u8` for the chars of the inputs drawn for day15 and day3 (ASCII).
as_u8 ==
    [c \in {"a", "b", "c", "m", "n", "o", "p", "q", "r", "t", "=", "-", ",",
            "1", "2", "\n", ".", "*", "#"} |->
        CASE c = "a" -> 97  [] c = "b" -> 98  [] c = "c" -> 99  [] c = "m" -> 109
          [] c = "n" -> 110 [] c = "o" -> 111 [] c = "p" -> 112 [] c = "q" -> 113
          [] c = "r" -> 114 [] c = "t" -> 116 [] c = "=" -> 61  [] c = "-" -> 45
          [] c = "," -> 44  [] c = "1" -> 49  [] c = "2" -> 50  [] c = "\n" -> 10
          [] c = "." -> 46  [] c = "*" -> 42  [] c = "#" -> 35]

\* char::is_ascii_digit
is_ascii_digit(c) == as_u8[c] \in 48..57

\* char::to_digit(10): None for a char that is no digit.
to_digit(c) == IF is_ascii_digit(c) THEN Some(as_u8[c] - 48) ELSE None

\* Variant: the running value is not reduced modulo 256.
hash_char_unreduced(c, current_value) == (as_u8[c] + current_value) * 17

\* hash_char, in u32: the operands stay below 2^32.
hash_char(c, current_value) == ((as_u8[c] + current_value) * 17) % 256

RECURSIVE hash_fold(_, _, _)
hash_fold(step, i, current_value) ==
    IF i > Len(step) THEN current_value
    ELSE hash_fold(step, i + 1, hash_char(step[i], current_value))

\* hash_str: the fold of hash_char over the chars, from 0.
hash_str(step) == hash_fold(step, 1, 0)

BoxContent(label, focal_length) ==
    [label |-> label, focal_length |-> focal_length]

AddLens(box_content, box_index) ==
    [op |-> "AddLens", box_content |-> box_content, box_index |-> box_index]

RemoveLens(label, box_index) ==
    [op |-> "RemoveLens", label |-> label, box_index |-> box_index]

\* str::split_at(mid)
split_at(s, mid) == <<SubSeq(s, 1, mid), SubSeq(s, mid + 1, Len(s))>>

\* The first match of SequenceOperation::from_str: the label and the rest, None
\* where it returns an error.
label_and_rest(s) ==
    IF s = <<>> THEN None
    ELSE IF s[Len(s)] = "-"
         THEN IF Len(s) > 1 THEN Some(split_at(s, Len(s) - 1)) ELSE None
    ELSE IF is_ascii_digit(s[Len(s)])
         THEN IF Len(s) > 2 THEN Some(split_at(s, Len(s) - 2)) ELSE None
    ELSE None

\* The second match of SequenceOperation::from_str, on the first char of the rest.
operation_of(label, rest) ==
    IF rest = <<>> THEN None
    ELSE IF rest[1] = "="
         THEN IF Len(rest) < 2 \/ to_digit(rest[2]) = None THEN None
              ELSE Some(AddLens(BoxContent(label, to_digit(rest[2])[1]),
                                hash_str(label)))
    ELSE IF rest[1] = "-" THEN Some(RemoveLens(label, hash_str(label)))
    ELSE None

\* SequenceOperation::from_str: Some(operation), or None for Err.
SequenceOperation_from_str(s) ==
    IF label_and_rest(s) = None THEN None
    ELSE operation_of(label_and_rest(s)[1][1], label_and_rest(s)[1][2])

\* str::trim for the inputs drawn: the line ends at both ends are dropped.
RECURSIVE trim(_)
trim(s) ==
    IF s = <<>> THEN s
    ELSE IF s[1] = "\n" THEN trim(Tail(s))
    ELSE IF s[Len(s)] = "\n" THEN trim(SubSeq(s, 1, Len(s) - 1))
    ELSE s

\* str::split(","): the pieces between the commas; one empty piece for "".
RECURSIVE split(_, _, _)
split(s, i, piece) ==
    IF i > Len(s) THEN <<piece>>
    ELSE IF s[i] = "," THEN <<piece>> \o split(s, i + 1, <<>>)
    ELSE split(s, i + 1, Append(piece, s[i]))

\* `boxes.get_mut(box_index)`: None past the end of the array.
get_mut(bs, box_index) ==
    IF box_index \in DOMAIN bs THEN Some(bs[box_index]) ELSE None

\* Variant: the lens is pushed whether or not its label is in the box.
add_lens_always_push(wanted_box, box_content, i) == Append(wanted_box, box_content)

\* The AddLens arm from `let mut replaced`: the first lens with the label gets
\* the focal length (break), and when there is none the lens is pushed.
RECURSIVE add_lens(_, _, _)
add_lens(wanted_box, box_content, i) ==
    IF i > Len(wanted_box) THEN Append(wanted_box, box_content)
    ELSE IF wanted_box[i].label = box_content.label
         THEN [wanted_box EXCEPT ![i].focal_length = box_content.focal_length]
    ELSE add_lens(wanted_box, box_content, i + 1)

\* Variant: the first lens of the box is dropped.
remove_lens_first(wanted_box, label) ==
    IF wanted_box = <<>> THEN wanted_box ELSE Tail(wanted_box)

\* `retain(|x| x.label != label)`
remove_lens(wanted_box, label) ==
    SelectSeq(wanted_box, LAMBDA x : x.label # label)

\* One pass of `for operation in operations`: the boxes after it, None where
\* get_mut finds no box.
apply_operation(bs, operation) ==
    IF get_mut(bs, operation.box_index) = None THEN None
    ELSE IF operation.op = "AddLens"
         THEN Some([bs EXCEPT ![operation.box_index] =
                        add_lens(@, operation.box_content, 1)])
    ELSE Some([bs EXCEPT ![operation.box_index] =
                        remove_lens(@, operation.label)])

\* get_focusing_power of one (box_index, box) pair.
RECURSIVE get_focusing_power(_, _, _)
get_focusing_power(box_index, box_content_vec, lens_index) ==
    IF lens_index >= Len(box_content_vec) THEN 0
    ELSE (box_index + 1) * (lens_index + 1)
            * box_content_vec[lens_index + 1].focal_length
         + get_focusing_power(box_index, box_content_vec, lens_index + 1)

\* `hashmap.into_iter().enumerate().map(get_focusing_power).sum()` over the
\* boxes lo..hi; the sum is taken half by half.
RECURSIVE sum_focusing_power(_, _, _)
sum_focusing_power(hashmap, lo, hi) ==
    IF lo > hi THEN 0
    ELSE IF lo = hi THEN get_focusing_power(lo, hashmap[lo], 0)
    ELSE sum_focusing_power(hashmap, lo, (lo + hi) \div 2)
         + sum_focusing_power(hashmap, (lo + hi) \div 2 + 1, hi)

\* The steps the inputs are made of: three labels (rn and cm hash to box 0, qp
\* to box 1) with `=1`, `=2` and `-`, and a step with no operation.
Labels == {<<"r", "n">>, <<"c", "m">>, <<"q", "p">>}

StepTexts ==
    {l \o o : l \in Labels, o \in {<<"=", "1">>, <<"=", "2">>, <<"-">>}}
        \cup {<<"r", "n">>}

RECURSIVE join(_)
join(steps) ==
    IF steps = <<>> THEN <<>>
    ELSE IF Len(steps) = 1 THEN steps[1]
    ELSE steps[1] \o <<",">> \o join(Tail(steps))

\* Every text of at most MaxSteps steps, as read from a file: a line.
Inputs ==
    {join(steps) \o <<"\n">> :
        steps \in UNION {[1..n -> StepTexts] : n \in 0..MaxSteps}}

\* part2 up to collect_vec: every piece is parsed, `expect` panics on an Err.
day15_parse ==
    /\ day15_pc = "input"
    /\ \E text \in Inputs :
          /\ input' = text
          /\ \E pieces \in {split(trim(text), 1, <<>>)} :
                IF \E i \in DOMAIN pieces :
                        SequenceOperation_from_str(pieces[i]) = None
                THEN /\ day15_pc' = "panic"
                     /\ UNCHANGED operations
                ELSE /\ day15_pc' = "parsed"
                     /\ operations' =
                           [i \in DOMAIN pieces |->
                               SequenceOperation_from_str(pieces[i])[1]]
    /\ UNCHANGED <<consumed, boxes, day15_result>>
    /\ UNCHANGED not_day15

\* build_lens_hashmap up to its loop: 256 empty boxes.
build_lens_hashmap ==
    /\ day15_pc = "parsed"
    /\ boxes' = [box_index \in 0..255 |-> <<>>]
    /\ consumed' = 0
    /\ day15_pc' = "build"
    /\ UNCHANGED <<input, operations, day15_result>>
    /\ UNCHANGED not_day15

\* One pass of the loop of build_lens_hashmap, or its end: Ok(boxes). An Err of
\* build_lens_hashmap is unwrapped by part2.
build_step ==
    /\ day15_pc = "build"
    /\ IF consumed = Len(operations)
       THEN /\ day15_pc' = "built"
            /\ UNCHANGED <<boxes, consumed>>
       ELSE \E after \in {apply_operation(boxes, operations[consumed + 1])} :
              IF after = None
              THEN /\ day15_pc' = "unwrap_err"
                   /\ UNCHANGED <<boxes, consumed>>
              ELSE /\ boxes' = after[1]
                   /\ consumed' = consumed + 1
                   /\ day15_pc' = "build"
    /\ UNCHANGED <<input, operations, day15_result>>
    /\ UNCHANGED not_day15

\* The end of part2: the sum of the focusing powers.
day15_sum ==
    /\ day15_pc = "built"
    /\ day15_result' = Some(sum_focusing_power(boxes, 0, 255))
    /\ day15_pc' = "returned"
    /\ UNCHANGED <<input, operations, consumed, boxes>>
    /\ UNCHANGED not_day15

Init15 ==
    /\ day16_init
    /\ input = <<>>
    /\ operations = <<>>
    /\ consumed = 0
    /\ boxes = <<>>
    /\ day15_pc = "input"
    /\ day15_result = None
    /\ day3_idle
    /\ day10_idle
    /\ day8_idle

Next15 ==
    \/ day15_parse
    \/ build_lens_hashmap
    \/ build_step
    \/ day15_sum

Spec15 == Init15 /\ [][Next15]_vars

\* ------------------------------------------------------------------ day3
\* AdjacencyRange: `inner`, the range from..to (to excluded).
AdjacencyRange(from, to) == [start |-> from, end |-> to]

\* AdjacencyRange::new of the range from..to.
AdjacencyRange_new(from, to) ==
    AdjacencyRange(IF from = 0 THEN from ELSE from - 1, to + 1)

\* AdjacencyRange::contains: Range::contains of start..end.
contains(range, index) == range.start <= index /\ index < range.end

PossiblePartNumber(number, location_range) ==
    [number |-> number, location_range |-> location_range]

\* u32::from_str of a run of digits; the runs drawn stay far below 2^32.
RECURSIVE u32_from_str(_, _, _)
u32_from_str(digits, i, value) ==
    IF i > Len(digits) THEN value
    ELSE u32_from_str(digits, i + 1, value * 10 + to_digit(digits[i])[1])

\* parse_possible_part_number with `possible_start` as it is before take():
\* None when no number is being parsed.
parse_possible_part_number(s, possible_start, current_index) ==
    IF possible_start = None THEN None
    ELSE Some(PossiblePartNumber(
                u32_from_str(SubSeq(s, possible_start[1] + 1, current_index), 1, 0),
                AdjacencyRange_new(possible_start[1], current_index)))

EngineLine(possible_part_numbers, symbol_indexes, possible_gears) ==
    [possible_part_numbers |-> possible_part_numbers,
     symbol_indexes |-> symbol_indexes,
     possible_gears |-> possible_gears]

\* `possible_part_numbers.push` of the number just parsed, if there is one.
push_part_number(line, parsed) ==
    IF parsed = None THEN line
    ELSE [line EXCEPT !.possible_part_numbers = Append(@, parsed[1])]

\* The end of the loop body of from_str for a char that is no digit.
push_symbol(line, index, c) ==
    IF c = "." THEN line
    ELSE [line EXCEPT !.symbol_indexes = Append(@, index),
                      !.possible_gears = IF c = "*" THEN Append(@, index) ELSE @]

\* EngineLine::from_str from char `index` on (0-based), and the number parsed
\* after the loop for a line that ends in a digit.
RECURSIVE EngineLine_from(_, _, _, _)
EngineLine_from(s, index, parsing_number_start, line) ==
    IF index = Len(s)
    THEN push_part_number(
            line, parse_possible_part_number(s, parsing_number_start, Len(s)))
    ELSE IF is_ascii_digit(s[index + 1])
         THEN EngineLine_from(s, index + 1,
                              IF parsing_number_start = None THEN Some(index)
                              ELSE parsing_number_start,
                              line)
    ELSE EngineLine_from(
            s, index + 1, None,
            push_symbol(
                push_part_number(
                    line,
                    parse_possible_part_number(s, parsing_number_start, index)),
                index, s[index + 1]))

EngineLine_from_str(s) == EngineLine_from(s, 0, None, EngineLine(<<>>, <<>>, <<>>))

\* The inner loop of get_part_numbers_sum for one part number.
RECURSIVE sum_over_symbols(_, _, _)
sum_over_symbols(part_number, symbol_indexes, j) ==
    IF j > Len(symbol_indexes) THEN 0
    ELSE (IF contains(part_number.location_range, symbol_indexes[j])
          THEN part_number.number ELSE 0)
         + sum_over_symbols(part_number, symbol_indexes, j + 1)

RECURSIVE sum_over_part_numbers(_, _, _)
sum_over_part_numbers(part_numbers, symbol_indexes, i) ==
    IF i > Len(part_numbers) THEN 0
    ELSE sum_over_symbols(part_numbers[i], symbol_indexes, 1)
         + sum_over_part_numbers(part_numbers, symbol_indexes, i + 1)

get_part_numbers_sum(part_numbers, symbol_indexes) ==
    sum_over_part_numbers(part_numbers, symbol_indexes, 1)

\* The chars of the schematics drawn: empty, two digits, a gear and one other
\* symbol.
SchematicChars == {".", "1", "2", "*", "#"}

\* Every schematic of 1..MaxLines lines of one width up to MaxWidth.
Schematics ==
    UNION {[1..n -> [1..w -> SchematicChars]] : n \in 1..MaxLines, w \in 1..MaxWidth}

\* The input read: every line parsed to an EngineLine. No line drawn fails.
day3_parse ==
    /\ day3_pc = "input"
    /\ \E text \in Schematics :
          /\ schematic' = text
          /\ engine_lines' = [i \in DOMAIN text |-> EngineLine_from_str(text[i])]
    /\ sum' = 0
    /\ line_index' = 1
    /\ day3_pc' = "same_line"
    /\ UNCHANGED day3_result
    /\ UNCHANGED not_day3

\* One pass of part1's first loop (same line adjacency), or its end.
part1_same_line ==
    /\ day3_pc = "same_line"
    /\ IF line_index > Len(engine_lines)
       THEN /\ day3_pc' = "interline"
            /\ line_index' = 1
            /\ UNCHANGED sum
       ELSE /\ sum' = sum + get_part_numbers_sum(
                              engine_lines[line_index].possible_part_numbers,
                              engine_lines[line_index].symbol_indexes)
            /\ line_index' = line_index + 1
            /\ UNCHANGED day3_pc
    /\ UNCHANGED <<schematic, engine_lines, day3_result>>
    /\ UNCHANGED not_day3

\* One pass of part1's second loop over tuple_windows (line_above, line_below),
\* or its end: part1 returns sum.
part1_interline ==
    /\ day3_pc = "interline"
    /\ IF line_index + 1 > Len(engine_lines)
       THEN /\ day3_pc' = "returned"
            /\ day3_result' = Some(sum)
            /\ UNCHANGED <<sum, line_index>>
       ELSE /\ sum' = sum
                      + get_part_numbers_sum(
                            engine_lines[line_index].possible_part_numbers,
                            engine_lines[line_index + 1].symbol_indexes)
                      + get_part_numbers_sum(
                            engine_lines[line_index + 1].possible_part_numbers,
                            engine_lines[line_index].symbol_indexes)
            /\ line_index' = line_index + 1
            /\ UNCHANGED <<day3_pc, day3_result>>
    /\ UNCHANGED <<schematic, engine_lines>>
    /\ UNCHANGED not_day3

Init3 ==
    /\ day16_init
    /\ day15_idle
    /\ schematic = <<>>
    /\ engine_lines = <<>>
    /\ sum = 0
    /\ line_index = 0
    /\ day3_pc = "input"
    /\ day3_result = None
    /\ day10_idle
    /\ day8_idle

Next3 ==
    \/ day3_parse
    \/ part1_same_line
    \/ part1_interline

Spec3 == Init3 /\ [][Next3]_vars

\* ------------------------------------------------------------------ day10
Tile ==
    {"Vertical", "Horizontal", "NorthEast", "NorthWest", "SouthWest",
     "SouthEast", "Ground", "Start"}

GrindIndex(x, y) == [x |-> x, y |-> y]

north(index) ==
    IF index.y = 0 THEN None ELSE Some(GrindIndex(index.x, index.y - 1))

south(index) == Some(GrindIndex(index.x, index.y + 1))

east(index) == Some(GrindIndex(index.x + 1, index.y))

west(index) ==
    IF index.x = 0 THEN None ELSE Some(GrindIndex(index.x - 1, index.y))

\* The `options` Vec of Tile::get_possible_next.
options(tile, current) ==
    CASE tile = "Vertical"   -> <<north(current), south(current)>>
      [] tile = "Horizontal" -> <<east(current), west(current)>>
      [] tile = "NorthEast"  -> <<north(current), east(current)>>
      [] tile = "NorthWest"  -> <<north(current), west(current)>>
      [] tile = "SouthWest"  -> <<south(current), west(current)>>
      [] tile = "SouthEast"  -> <<south(current), east(current)>>
      [] tile = "Ground"     -> <<>>
      [] tile = "Start"      -> <<north(current), south(current),
                                  east(current), west(current)>>

\* `filter_map(|x| x)`: the values of the Some items, in order.
RECURSIVE filter_map(_)
filter_map(items) ==
    IF items = <<>> THEN <<>>
    ELSE (IF Head(items) = None THEN <<>> ELSE <<Head(items)[1]>>)
         \o filter_map(Tail(items))

get_possible_next(tile, current) == filter_map(options(tile, current))

\* Tile::try_from(char): None for Err.
Tile_try_from(value) ==
    CASE value = "|" -> Some("Vertical")
      [] value = "-" -> Some("Horizontal")
      [] value = "L" -> Some("NorthEast")
      [] value = "J" -> Some("NorthWest")
      [] value = "7" -> Some("SouthWest")
      [] value = "F" -> Some("SouthEast")
      [] value = "." -> Some("Ground")
      [] value = "S" -> Some("Start")
      [] OTHER -> None

\* Grid::from_str: None when a char is no tile.
Grid_from_str(lines) ==
    IF \E y \in DOMAIN lines : \E x \in DOMAIN lines[y] :
            Tile_try_from(lines[y][x]) = None
    THEN None
    ELSE Some([y \in DOMAIN lines |->
                 [x \in DOMAIN lines[y] |-> Tile_try_from(lines[y][x])[1]]])

\* Grid::get_tile
get_tile(grid, index) ==
    IF index.y < Len(grid) /\ index.x < Len(grid[index.y + 1])
    THEN Some(grid[index.y + 1][index.x + 1])
    ELSE None

\* Grid::get_start: the first Start tile, line by line from the top.
RECURSIVE get_start_from(_, _, _)
get_start_from(grid, x, y) ==
    IF y >= Len(grid) THEN None
    ELSE IF x >= Len(grid[y + 1]) THEN get_start_from(grid, 0, y + 1)
    ELSE IF grid[y + 1][x + 1] = "Start" THEN Some(GrindIndex(x, y))
    ELSE get_start_from(grid, x + 1, y)

get_start(grid) == get_start_from(grid, 0, 0)

\* The `for possible_next` loop of get_loop_length: the entries pushed.
RECURSIVE pushed(_, _, _, _)
pushed(prev, current, depth, nexts) ==
    IF nexts = <<>> THEN <<>>
    ELSE (IF prev # None /\ prev[1] = Head(nexts) THEN <<>>
          ELSE << <<Some(current), Head(nexts), depth + 1>> >>)
         \o pushed(prev, current, depth, Tail(nexts))

PipeChars == {"|", "-", "L", "J", "7", "F", ".", "S"}

\* Every text of 1..MaxPipeRows lines of one width up to MaxPipeColumns with
\* one S in it, a text without S, and a text with a char that is no tile.
PipeTexts ==
    {t \in UNION {[1..n -> [1..w -> PipeChars]] :
                    n \in 1..MaxPipeRows, w \in 1..MaxPipeColumns} :
        Cardinality({p \in (DOMAIN t) \X (DOMAIN t[1]) : t[p[1]][p[2]] = "S"}) = 1}
    \cup {<< <<".">> >>, << <<"S", "#">> >>}

\* parse_input: the text parsed to a Grid; an Err is unwrapped.
day10_parse ==
    /\ day10_pc = "input"
    /\ \E text \in PipeTexts :
          /\ pipe_text' = text
          /\ \E parsed \in {Grid_from_str(text)} :
                IF parsed = None
                THEN day10_pc' = "panic" /\ UNCHANGED tiles
                ELSE day10_pc' = "parsed" /\ tiles' = parsed[1]
    /\ UNCHANGED <<stack, discovered, first, day10_result>>
    /\ UNCHANGED not_day10

\* part1 up to the loop of get_loop_length: get_num_furthest_from_start finds
\* the start (part1 unwraps the None of a grid without one) and get_loop_length
\* pushes it.
get_num_furthest_from_start ==
    /\ day10_pc = "parsed"
    /\ \E found \in {get_start(tiles)} :
          IF found = None
          THEN day10_pc' = "panic" /\ UNCHANGED <<stack, discovered, first>>
          ELSE /\ stack' = << <<None, found[1], 0>> >>
               /\ discovered' = {}
               /\ first' = TRUE
               /\ day10_pc' = "loop"
    /\ UNCHANGED <<pipe_text, tiles, day10_result>>
    /\ UNCHANGED not_day10

\* One pass of `while !stack.is_empty()` of get_loop_length, or its end: None,
\* which part1 unwraps.
get_loop_length ==
    /\ day10_pc = "loop"
    /\ IF stack = <<>>
       THEN /\ day10_pc' = "panic"
            /\ UNCHANGED <<stack, discovered, first, day10_result>>
       ELSE \E top \in {stack[Len(stack)]}, rest \in {SubSeq(stack, 1, Len(stack) - 1)} :
              \E tile \in {get_tile(tiles, top[2])} :
                IF tile = None
                THEN /\ stack' = rest
                     /\ UNCHANGED <<discovered, first, day10_pc, day10_result>>
                ELSE IF ~first /\ tile[1] = "Start"
                THEN /\ day10_result' = Some(top[3] \div 2)
                     /\ day10_pc' = "returned"
                     /\ stack' = rest
                     /\ UNCHANGED <<discovered, first>>
                ELSE /\ first' = FALSE
                     /\ UNCHANGED <<day10_pc, day10_result>>
                     /\ IF top[2] \in discovered
                        THEN stack' = rest /\ UNCHANGED discovered
                        ELSE /\ stack' =
                                  rest \o pushed(top[1], top[2], top[3],
                                                 get_possible_next(tile[1], top[2]))
                             /\ discovered' = discovered \cup {top[2]}
    /\ UNCHANGED <<pipe_text, tiles>>
    /\ UNCHANGED not_day10

Init10 ==
    /\ day16_init
    /\ day15_idle
    /\ day3_idle
    /\ pipe_text = <<>>
    /\ tiles = <<>>
    /\ stack = <<>>
    /\ discovered = {}
    /\ first = TRUE
    /\ day10_pc = "input"
    /\ day10_result = None
    /\ day8_idle

Next10 ==
    \/ day10_parse
    \/ get_num_furthest_from_start
    \/ get_loop_length

Spec10 == Init10 /\ [][Next10]_vars

\* ------------------------------------------------------------------ day8
\* NodeName: its three chars.
NodeName(first_char, second, third) == <<first_char, second, third>>

\* NodeName::ends_with
ends_with(name) == name[3]

NodeDescription(current, left, right) ==
    [current |-> current, left |-> left, right |-> right]

\* NetworkNode::new
NetworkNode_new(name) == [name |-> name, left |-> None, right |-> None]

is_start_node(node) == ends_with(node.name) = "A"

\* NetworkBuilder::with_capacity; node_mapping is the set of its
\* (name, index) entries, indexes from 0.
NetworkBuilder_new == [nodes |-> <<>>, node_mapping |-> {}, heads |-> <<>>]

\* `node_mapping.get(&node_name)`
mapping_get(builder, node_name) ==
    IF \E e \in builder.node_mapping : e[1] = node_name
    THEN Some((CHOOSE e \in builder.node_mapping : e[1] = node_name)[2])
    ELSE None

\* NetworkBuilder::insert_new_node followed by `node_mapping.insert`: the
\* builder after them; the new index is the last of `nodes`.
insert_new_node(builder, node_name) ==
    [nodes |-> Append(builder.nodes, NetworkNode_new(node_name)),
     node_mapping |-> builder.node_mapping \cup {<<node_name, Len(builder.nodes)>>},
     heads |-> IF is_start_node(NetworkNode_new(node_name))
               THEN Append(builder.heads, Len(builder.nodes))
               ELSE builder.heads]

\* get_or_insert_node_index and get_or_insert_node: the builder after the call
\* and the index they find or make.
get_or_insert(builder, node_name) ==
    IF mapping_get(builder, node_name) # None THEN builder
    ELSE insert_new_node(builder, node_name)

\* `if node_description.left != node_description.current { node.left.replace(..) }`
\* and the same for right: `slot` is the node's field before.
replace_unless_self(description_name, current, index, slot) ==
    IF description_name # current THEN Some(index) ELSE slot

\* One pass of the loop of create_network_from_node_description.
add_description(builder, d) ==
    [get_or_insert(get_or_insert(get_or_insert(builder, d.left), d.right), d.current)
        EXCEPT !.nodes =
            [@ EXCEPT ![mapping_get(get_or_insert(get_or_insert(
                            get_or_insert(builder, d.left), d.right), d.current),
                            d.current)[1] + 1] =
                [name |-> @.name,
                 left |-> replace_unless_self(
                            d.left, d.current,
                            mapping_get(get_or_insert(builder, d.left), d.left)[1],
                            @.left),
                 right |-> replace_unless_self(
                            d.right, d.current,
                            mapping_get(get_or_insert(get_or_insert(builder, d.left),
                                                      d.right), d.right)[1],
                            @.right)]]]

RECURSIVE add_descriptions(_, _, _)
add_descriptions(builder, descriptions, i) ==
    IF i > Len(descriptions) THEN builder
    ELSE add_descriptions(add_description(builder, descriptions[i]),
                          descriptions, i + 1)

\* NetworkBuilder::finish
finish(builder, start_node) ==
    [nodes |-> builder.nodes,
     head |-> mapping_get(builder, start_node),
     heads |-> builder.heads]

create_network_from_node_description(descriptions) ==
    finish(add_descriptions(NetworkBuilder_new, descriptions, 1),
           NodeName("A", "A", "A"))

\* Instruction::try_from(char): None for Err.
Instruction_try_from(value) ==
    CASE value = "R" -> Some("Right")
      [] value = "L" -> Some("Left")
      [] OTHER -> None

\* `nodes.get(index)` of get_head, get_left and get_right: the index of the
\* node stands for the reference to it.
nodes_get(net, index) ==
    IF index # None /\ index[1] < Len(net.nodes) THEN index ELSE None

\* Network::get_head
get_head(net) == nodes_get(net, net.head)

\* Network::get_next; `node` is the index of the node.
get_next(net, node, instruction) ==
    IF instruction = "Left" THEN nodes_get(net, net.nodes[node + 1].left)
    ELSE nodes_get(net, net.nodes[node + 1].right)

Names == {NodeName("A", "A", "A"), NodeName("B", "B", "B"), NodeName("Z", "Z", "Z")}

\* The node descriptions drawn: one line for AAA, BBB and ZZZ each, in this
\* order, with every choice of left and right among the three names; and a
\* network without AAA.
NodeDescriptionLists ==
    {<<NodeDescription(NodeName("A", "A", "A"), a[1], a[2]),
       NodeDescription(NodeName("B", "B", "B"), b[1], b[2]),
       NodeDescription(NodeName("Z", "Z", "Z"), z[1], z[2])>> :
        a \in Names \X Names, b \in Names \X Names, z \in Names \X Names}
    \cup {<<NodeDescription(NodeName("Z", "Z", "Z"), NodeName("Z", "Z", "Z"),
                            NodeName("Z", "Z", "Z"))>>}

\* The instruction lines drawn: 1..MaxInstructions chars L and R, and a line
\* with another char.
InstructionLines ==
    UNION {[1..n -> {"L", "R"}] : n \in 1..MaxInstructions} \cup {<<"X">>}

\* Map::from_str from the instruction line and the parsed node descriptions;
\* parse_input unwraps an Err.
day8_parse ==
    /\ day8_pc = "input"
    /\ \E line \in InstructionLines, descriptions \in NodeDescriptionLists :
          /\ instruction_line' = line
          /\ node_descriptions' = descriptions
          /\ IF \E i \in DOMAIN line : Instruction_try_from(line[i]) = None
             THEN day8_pc' = "panic" /\ UNCHANGED <<instructions, network>>
             ELSE /\ instructions' =
                        [i \in DOMAIN line |-> Instruction_try_from(line[i])[1]]
                  /\ network' = create_network_from_node_description(descriptions)
                  /\ day8_pc' = "parsed"
    /\ UNCHANGED <<current_node, num_steps, instruction_index, day8_result>>
    /\ UNCHANGED not_day8

\* get_num_steps up to its loop; part1 unwraps the Err of a missing head.
get_num_steps ==
    /\ day8_pc = "parsed"
    /\ IF get_head(network) = None
       THEN day8_pc' = "panic" /\ UNCHANGED current_node
       ELSE day8_pc' = "walk" /\ current_node' = get_head(network)[1]
    /\ num_steps' = 0
    /\ instruction_index' = 1
    /\ UNCHANGED <<instruction_line, node_descriptions, instructions, network,
                   day8_result>>
    /\ UNCHANGED not_day8

\* One pass of `for instruction in &self.instructions`, the list taken again
\* from its start by the outer loop; part1 unwraps the Err of get_next.
walk_step ==
    /\ day8_pc = "walk"
    /\ num_steps < MaxWalk
    /\ IF network.nodes[current_node + 1].name = NodeName("Z", "Z", "Z")
       THEN /\ day8_result' = Some(num_steps)
            /\ day8_pc' = "returned"
            /\ UNCHANGED <<current_node, num_steps, instruction_index>>
       ELSE \E next \in {get_next(network, current_node,
                                  instructions[instruction_index])} :
              IF next = None
              THEN /\ day8_pc' = "panic"
                   /\ UNCHANGED <<current_node, num_steps, instruction_index,
                                  day8_result>>
              ELSE /\ current_node' = next[1]
                   /\ num_steps' = num_steps + 1
                   /\ instruction_index' =
                         IF instruction_index = Len(instructions) THEN 1
                         ELSE instruction_index + 1
                   /\ UNCHANGED <<day8_pc, day8_result>>
    /\ UNCHANGED <<instruction_line, node_descriptions, instructions, network>>
    /\ UNCHANGED not_day8

Init8 ==
    /\ day16_init
    /\ day15_idle
    /\ day3_idle
    /\ day10_idle
    /\ instruction_line = <<>>
    /\ node_descriptions = <<>>
    /\ instructions = <<>>
    /\ network = <<>>
    /\ current_node = 0
    /\ num_steps = 0
    /\ instruction_index = 0
    /\ day8_pc = "input"
    /\ day8_result = None

Next8 ==
    \/ day8_parse
    \/ get_num_steps
    \/ walk_step

Spec8 == Init8 /\ [][Next8]_vars

\* ------------------------------------------------------------------ claims
\* The vocabulary of the claims, stated without the operators of the run.
Rows == Len(contraption)

Columns == IF contraption = <<>> THEN 0 ELSE Len(contraption[1])

InGrid(p) == p[1] >= 0 /\ p[1] < Columns /\ p[2] >= 0 /\ p[2] < Rows

\* One cell from p in direction d, in the integers.
Moved(p, d) ==
    CASE d = "North" -> <<p[1], p[2] - 1>>
      [] d = "South" -> <<p[1], p[2] + 1>>
      [] d = "East"  -> <<p[1] + 1, p[2]>>
      [] d = "West"  -> <<p[1] - 1, p[2]>>

Running == pc \in {"run", "done"}

Ticked == Running /\ ticks > 0

LastSteps == Range(last.steps)

\* The rays of the latest tick that stayed active, in order.
Survivors ==
    LET k == SelectSeq(last.steps, LAMBDA s : s.kept)
    IN  [i \in 1..Len(k) |-> k[i].to]

\* C1: every run on a rectangular, non-empty grid from an in-bounds start ends:
\* the loop `while next_bounce()` reaches the call that returns false, with no
\* active ray left, also on grids with mirror/splitter cycles.
\* Stated on the number of calls: VisitedState has fewer than 4 * rows * columns
\* pairs and grows in every tick in which a ray survives; the ticks in which none
\* survives move secondary rays West or South only. A run still looping after
\* that many calls would be a run that does not end.
C1_Terminates ==
    /\ pc = "run" => ticks < 4 * Rows * Columns + Rows + Columns
    /\ pc = "done" <=> (ticks > 0 /\ beams = <<>>)

\* A finished run whose last ray was retired because it re-entered a visited
\* (position, direction) pair: the grid had a cycle.
C1_Witness ==
    /\ pc = "done"
    /\ ticks >= 4
    /\ \E s \in LastSteps : s.loc # None /\ ~s.kept /\ s.to.current = start[1].current

\* C2 (as claimed): a secondary ray is added to the active collection only if its
\* (position, direction) pair is not in VisitedState.
C2_SecondaryOnlyIfUnvisited ==
    Ticked => \A i \in DOMAIN last.added : last.added[i] \notin last.previous_steps

\* C3 (as claimed): after every tick VisitedState holds the pair of every ray that
\* has been active in the run, secondary rays included.
C3_EverActiveRecorded == Running => ever_active \subseteq previous_steps

\* C4 (as claimed): Beams::new on a grid whose cell (0,0) is a VerticalSplitter
\* builds the run with the two rays North and South at (0,0) instead of failing.
C4_NewHandlesStartSplit ==
    (entry = "new" /\ get(contraption, <<0, 0>>) = Some("VerticalSplitter"))
        => /\ pc # "panic"
           /\ ticks = 0 => Range(beams) = {MovingBeam(<<0, 0>>, "North"),
                                           MovingBeam(<<0, 0>>, "South")}

\* C5: at the end of every tick every active ray is inside the grid, and a ray
\* whose next step leaves the grid is removed in that tick and emits no
\* secondary ray.
C5_ActiveInBounds ==
    /\ Running => \A i \in DOMAIN beams : InGrid(beams[i].current)
    /\ Ticked =>
          /\ beams = Survivors \o last.added
          /\ \A s \in LastSteps :
                ~InGrid(Moved(s.from.current, s.from.direction))
                    => ~s.kept /\ s.loc = None /\ s.extra = None

\* A tick in which one ray left the grid while another stayed active.
C5_Witness ==
    /\ Ticked
    /\ beams # <<>>
    /\ \E s \in LastSteps : ~InGrid(Moved(s.from.current, s.from.direction))

\* C6: a ray whose post-step pair is already in VisitedState when it is processed
\* is removed in that tick and adds nothing to VisitedState or to the locations
\* the tick energizes; any other ray that stays on the grid is kept at its new
\* position and direction, and its pair and position are recorded.
C6_RetireOnRevisit ==
    Ticked =>
       /\ beams = Survivors \o last.added
       /\ \A s \in LastSteps :
             InGrid(Moved(s.from.current, s.from.direction)) =>
                /\ s.to.current = Moved(s.from.current, s.from.direction)
                /\ IF s.to \in s.seen
                   THEN /\ ~s.kept
                        /\ s.seen_after = s.seen
                        /\ s.locs_after = s.locs
                   ELSE /\ s.kept
                        /\ s.seen_after = s.seen \cup {s.to}
                        /\ s.locs_after = s.locs \cup {s.to.current}
                        /\ s.to \in previous_steps
                        /\ s.to.current \in energized
       /\ previous_steps =
             last.previous_steps \cup {s.to : s \in {t \in LastSteps : t.kept}}
       /\ energized =
             last.energized \cup {s.to.current : s \in {t \in LastSteps : t.kept}}

\* A tick in which two rays reached the same pair: the first was kept and
\* recorded it, the second found it visited and was retired.
C6_Witness ==
    /\ Ticked
    /\ \E s \in LastSteps :
          s.loc # None /\ ~s.kept /\ s.to \in s.seen
          /\ s.to \notin last.previous_steps
    /\ \E s \in LastSteps : s.loc # None /\ s.kept

\* C7: within a run EnergizedSet and VisitedState only grow, so the energized
\* count never decreases from one tick to the next.
C7_OnlyGrow ==
    [][pc = "run" =>
          /\ energized \subseteq energized'
          /\ previous_steps \subseteq previous_steps'
          /\ Cardinality(energized) <= Cardinality(energized')]_vars

\* A second or later tick that energized a new cell and recorded a new pair.
C7_Witness ==
    /\ Ticked
    /\ ticks >= 2
    /\ last.energized # {}
    /\ energized # last.energized
    /\ previous_steps # last.previous_steps

\* C8: in every state of a run VisitedState has fewer than
\* 4 * rows() * columns() pairs.
C8_VisitedBound ==
    Running =>
        Cardinality(previous_steps)
            < 4 * num_rows(contraption) * num_columns(contraption)

\* The closest a run comes to the bound: a split at the start of a one-cell
\* grid records two of its four pairs.
C8_Witness ==
    /\ Running
    /\ Cardinality(previous_steps) = 4 * Rows * Columns - 2

\* The interaction table of the specification, written as data.
ForwardMirrorTable ==
    [North |-> "East", South |-> "West", East |-> "North", West |-> "South"]

BackMirrorTable ==
    [North |-> "West", South |-> "East", East |-> "South", West |-> "North"]

\* C9: EmptySpace and the two mirrors give exactly one outgoing direction and no
\* secondary ray: EmptySpace keeps the direction, '/' and '\' turn it as tabled.
C9_SingleRayRule ==
    \A i \in interactions :
        /\ i.element = "EmptySpace" =>
              i.outgoing = i.incoming /\ i.secondary = None
        /\ i.element = "LeftToRightMirror" =>
              i.outgoing = ForwardMirrorTable[i.incoming] /\ i.secondary = None
        /\ i.element = "RightToLeftMirror" =>
              i.outgoing = BackMirrorTable[i.incoming] /\ i.secondary = None

\* A tick in which a ray crossed an empty cell and another ray hit a mirror.
C9_Witness ==
    /\ Ticked
    /\ \E i \in interactions : i.element = "EmptySpace"
    /\ \E i \in interactions :
          i.element \in {"LeftToRightMirror", "RightToLeftMirror"}

\* C10: '|' passes North/South unchanged as one ray and turns East/West into the
\* two rays North and South; '-' passes East/West unchanged as one ray and turns
\* North/South into the two rays East and West; nothing else yields two rays.
C10_SplitterRule ==
    \A i \in interactions :
        LET out == IF i.secondary = None THEN {i.outgoing}
                   ELSE {i.outgoing, i.secondary[1]}
            splits == \/ /\ i.element = "VerticalSplitter"
                         /\ i.incoming \in {"East", "West"}
                      \/ /\ i.element = "HorizontalSplitter"
                         /\ i.incoming \in {"North", "South"}
        IN  /\ (i.secondary # None) <=> splits
            /\ i.secondary # None => i.secondary[1] # i.outgoing
            /\ i.element = "VerticalSplitter" =>
                  out = IF splits THEN {"North", "South"} ELSE {i.incoming}
            /\ i.element = "HorizontalSplitter" =>
                  out = IF splits THEN {"East", "West"} ELSE {i.incoming}

\* A tick in which one ray was split by a splitter and another passed through one.
C10_Witness ==
    /\ Ticked
    /\ \E i \in interactions :
          i.element \in {"VerticalSplitter", "HorizontalSplitter"}
          /\ i.secondary # None
    /\ \E i \in interactions :
          i.element \in {"VerticalSplitter", "HorizontalSplitter"}
          /\ i.secondary = None

\* The element of cell p of the grid, p inside the grid.
ElementAt(p) == contraption[p[2] + 1][p[1] + 1]

\* A ray heading d enters a splitter e on a side that splits it.
Splits(e, d) ==
    \/ e = "VerticalSplitter" /\ d \in {"East", "West"}
    \/ e = "HorizontalSplitter" /\ d \in {"North", "South"}

Perpendicular(e) ==
    IF e = "VerticalSplitter" THEN {"North", "South"} ELSE {"East", "West"}

\* The direction the entering ray itself leaves a splitting splitter with.
Primary(e) == IF e = "VerticalSplitter" THEN "North" ELSE "East"

\* The cell the i-th ray of the latest tick stepped to, in the integers.
Entered(i) == Moved(last.steps[i].from.current, last.steps[i].from.direction)

\* The i-th ray of the latest tick entered a splitter cell on a splitting side.
SplitEntry(i) ==
    /\ InGrid(Entered(i))
    /\ Splits(ElementAt(Entered(i)), last.steps[i].from.direction)

\* After the tick exactly the two rays at p exist, one per perpendicular
\* direction, and p is energized, the tick having added the cells its kept rays
\* entered, each once.
TwoRaysAt(p) ==
    /\ {b \in Range(beams) : b.current = p}
          = {MovingBeam(p, d) : d \in Perpendicular(ElementAt(p))}
    /\ p \in energized
    /\ energized = last.energized \cup {s.to.current : s \in {t \in LastSteps : t.kept}}

AllEmpty ==
    /\ get(contraption, <<0, 0>>) # None
    /\ \A y \in DOMAIN contraption : \A x \in DOMAIN contraption[y] :
          contraption[y][x] = "EmptySpace"

\* C12: on a grid made of EmptySpace only, the run of part1 (start (0,0) heading
\* East) is built without a panic, ends after columns() ticks with EnergizedSet
\* equal to the cells of row 0, and part1 returns columns().
C12_EmptyGridRowZero ==
    (entry = "new" /\ AllEmpty) =>
       /\ pc \in {"run", "done"}
       /\ pc = "run" => ticks < Columns
       /\ pc = "done" =>
             /\ energized = {<<x, 0>> : x \in 0..(Columns - 1)}
             /\ result = Some(num_columns(contraption))

\* part1 has returned on an empty grid of more than one row and column.
C12_Witness ==
    /\ entry = "new"
    /\ AllEmpty
    /\ pc = "done"
    /\ Rows >= 2
    /\ Columns >= 2
    /\ result = Some(2)

\* The text parsed is the reference text.
OnReference == content = ReferenceText

\* C13: on the reference 10x10 grid part1 returns 46 and part2 returns 51,
\* neither panicking.
C13_ReferenceCounts ==
    (OnReference /\ entry \in {"new", "part2"}) =>
       /\ pc \notin {"panic", "error"}
       /\ (entry = "new" /\ pc = "done") => result = Some(46)
       /\ pc = "returned" => result = Some(51)

\* part2 has returned on the reference grid after its 40 runs, of which some run
\* reached the best count and some other run did not.
C13_Witness ==
    /\ OnReference
    /\ pc = "returned"
    /\ Len(finished) = 40
    /\ \E i \in DOMAIN finished : Some(finished[i].energized) = result
    /\ \E i \in DOMAIN finished : finished[i].energized = 46

\* The edge starts of the specification: the top row heading South, the bottom
\* row heading North, the left column heading East, the right column heading
\* West.
EdgeStarts ==
    {MovingBeam(<<x, 0>>, "South") : x \in 0..(Columns - 1)}
        \cup {MovingBeam(<<x, Rows - 1>>, "North") : x \in 0..(Columns - 1)}
        \cup {MovingBeam(<<0, y>>, "East") : y \in 0..(Rows - 1)}
        \cup {MovingBeam(<<Columns - 1, y>>, "West") : y \in 0..(Rows - 1)}

\* The grid has a top row, a bottom row, a left column and a right column of
\* cells to start from: it has a row, and its rows have a cell.
HasEdgeCells == get(contraption, <<0, 0>>) # None

\* C14: on a grid with edge cells part2 does not panic and returns the maximum
\* final EnergizedSet size over exactly one run per edge start (a corner cell
\* once per direction): no other start is run, none is skipped, none is run twice.
C14_Part2MaxOverEdges ==
    (entry = "part2" /\ HasEdgeCells) =>
       /\ pc \notin {"panic", "error"}
       /\ \A i \in DOMAIN finished : finished[i].start_beam \in EdgeStarts
       /\ \A i \in DOMAIN finished : part2_energized >= finished[i].energized
       /\ pc = "returned" =>
             /\ {finished[i].start_beam : i \in DOMAIN finished} = EdgeStarts
             /\ Len(finished) = Cardinality(EdgeStarts)
             /\ Len(finished) = 2 * Rows + 2 * Columns
             /\ result = Some(part2_energized)
             /\ \E i \in DOMAIN finished : result = Some(finished[i].energized)

\* part2 has returned on a grid of more than one row and column, the best run
\* being neither the first nor the last.
C14_Witness ==
    /\ pc = "returned"
    /\ Rows >= 2
    /\ Columns >= 2
    /\ \E i \in DOMAIN finished :
          /\ result = Some(finished[i].energized)
          /\ \A j \in DOMAIN finished :
                (j = 1 \/ j = Len(finished)) =>
                    finished[j].energized < finished[i].energized

\* C15: the runs of part2 do not share state. Every run begins with VisitedState
\* holding only the pair(s) of its start rays, all at the start cell, and
\* EnergizedSet holding only the start cell; the count of every run is the count
\* the same start gives when it is run alone on the grid; no step after parsing
\* changes the grid.
C15_RunsIndependent ==
    /\ [](entry = "part2" =>
            /\ (pc = "run" /\ ticks = 0) =>
                  /\ energized = {start[1].current}
                  /\ previous_steps = Range(beams)
                  /\ \A b \in previous_steps : b.current = start[1].current
                  /\ ever_active = previous_steps
            /\ pc = "done" =>
                  result = Some(count_from(contraption, start[1])))
    /\ [][pc # "input" => contraption' = contraption]_vars

\* A run of part2 has ended that is not the first, and a run before it energized
\* cells this run did not.
C15_Witness ==
    /\ entry = "part2"
    /\ pc = "done"
    /\ finished # <<>>
    /\ \E i \in DOMAIN finished : finished[i].energized > result[1]
    /\ result[1] > 1

Outgoing(e, d) ==
    CASE e = "LeftToRightMirror" -> ForwardMirrorTable[d]
      [] e = "RightToLeftMirror" -> BackMirrorTable[d]
      [] OTHER                   -> d

\* C17: the run with_start_beam builds has the start cell pre-processed by the
\* interaction rule: one ray at the start cell with the outgoing direction of
\* the element, or, when the start cell splits the start direction, both rays
\* at the start cell, the primary one first, both pairs in VisitedState; in
\* either case VisitedState holds nothing else and EnergizedSet is the start
\* cell, once.
C17_StartPreProcessed ==
    (entry \in {"with_start_beam", "part2"} /\ pc = "run" /\ ticks = 0) =>
       /\ InGrid(start[1].current)
       /\ IF Splits(ElementAt(start[1].current), start[1].direction)
          THEN /\ Len(beams) = 2
               /\ beams[1] = MovingBeam(start[1].current,
                                        Primary(ElementAt(start[1].current)))
               /\ beams[2].current = start[1].current
               /\ beams[2].direction
                     \in Perpendicular(ElementAt(start[1].current))
                           \ {beams[1].direction}
          ELSE beams = <<MovingBeam(start[1].current,
                                    Outgoing(ElementAt(start[1].current),
                                             start[1].direction))>>
       /\ previous_steps = Range(beams)
       /\ energized = {start[1].current}
       /\ Cardinality(energized) = 1

\* A run built on a start cell that splits the start ray, and the start cell is
\* not the corner (0,0).
C17_Witness ==
    /\ entry = "with_start_beam"
    /\ pc = "run"
    /\ ticks = 0
    /\ start[1].current # <<0, 0>>
    /\ Splits(ElementAt(start[1].current), start[1].direction)
    /\ Len(beams) = 2
    /\ Cardinality(previous_steps) = 2

\* C18: with_start_beam on a start position outside the grid fails with an error
\* and builds nothing: no Beams value, no tick, no count; on a position inside
\* the grid it does not fail.
C18_InvalidStartFails ==
    entry = "with_start_beam" =>
       /\ pc = "error" <=> ~InGrid(start[1].current)
       /\ pc = "error" =>
             /\ beams = <<>>
             /\ energized = {}
             /\ previous_steps = {}
             /\ ticks = 0
             /\ result = None

\* with_start_beam has failed on a start one row below the grid, in a column the
\* grid has.
C18_Witness ==
    /\ entry = "with_start_beam"
    /\ pc = "error"
    /\ start[1].current[1] < Columns
    /\ start[1].current[2] = Rows
    /\ Columns >= 2

\* The element each of the five symbols stands for, as the specification lists
\* them.
SymbolElement ==
    [c \in {".", "/", "\\", "|", "-"} |->
        CASE c = "."  -> "EmptySpace"
          [] c = "/"  -> "LeftToRightMirror"
          [] c = "\\" -> "RightToLeftMirror"
          [] c = "|"  -> "VerticalSplitter"
          [] c = "-"  -> "HorizontalSplitter"]

\* The text handed to the parser holds a character that is none of the five.
HasOtherChar ==
    \E y \in DOMAIN content : \E x \in DOMAIN content[y] :
        content[y][x] \notin DOMAIN SymbolElement

\* C19: parsing a text with a character outside the five symbols fails and yields
\* no grid (nothing is run on it); a text of the five symbols parses to the grid
\* with one row per line and, in cell (x, y), the element of the x-th character
\* of the y-th line.
C19_ParseOrFail ==
    pc # "input" =>
       IF HasOtherChar
       THEN /\ pc = "panic"
            /\ contraption = <<>>
            /\ entry = "none"
       ELSE /\ DOMAIN contraption = DOMAIN content
            /\ \A y \in DOMAIN content :
                  /\ DOMAIN contraption[y] = DOMAIN content[y]
                  /\ \A x \in DOMAIN content[y] :
                        /\ contraption[y][x] = SymbolElement[content[y][x]]
                        /\ get(contraption, <<x - 1, y - 1>>)
                              = Some(SymbolElement[content[y][x]])

\* Parsing has failed on a text of two lines whose only unknown character is the
\* last one of the last line.
C19_Witness ==
    /\ pc = "panic"
    /\ entry = "none"
    /\ Len(content) = 2
    /\ Len(content[2]) = 2
    /\ content[2][2] \notin DOMAIN SymbolElement
    /\ content[1][1] = "/"
    /\ content[1][2] = "-"
    /\ content[2][1] = "|"

\* C20: every Contraption::get((column, row)) call returns the element of that
\* cell when row < number of rows and column < length of that row, and none for
\* every other position.
C20_GetInBounds ==
    \A l \in lookups :
        IF l.index[2] < Len(contraption)
           /\ l.index[1] < Len(contraption[l.index[2] + 1])
        THEN l.element = Some(contraption[l.index[2] + 1][l.index[1] + 1])
        ELSE l.element = None

\* A tick on a grid of two rows and two columns, with different elements in its
\* last cell and the cell mirrored on the diagonal, in which one get call was
\* answered with that last cell and another with none.
C20_Witness ==
    /\ Ticked
    /\ Rows = 2
    /\ Columns >= 2
    /\ \E l \in lookups : l.element = None /\ l.index[2] = Rows
    /\ \E l \in lookups :
          /\ l.index = <<Columns - 1, 0>>
          /\ l.element # None
          /\ l.element # get(contraption, <<0, 1>>)

\* ------------------------------------------------------------------ day15 claims
\* The vocabulary of the day15 claims: the steps of the input text in its
\* order, and what each step asks for, read off the step's chars.
Steps == split(trim(input), 1, <<>>)

StepLabel(p) == SelectSeq(p, LAMBDA c : c \notin {"=", "-", "1", "2"})

StepAdds(p) == \E i \in DOMAIN p : p[i] = "="

StepFocal(p) == IF p[Len(p)] = "1" THEN 1 ELSE 2

Holds(box, label) == \E k \in DOMAIN box : box[k].label = label

Without(box, k) == SubSeq(box, 1, k - 1) \o SubSeq(box, k + 1, Len(box))

AllBoxes == 0..255

\* What one operation may do to its box: `old` before, `new` after.
UpdateRule(p, old, new) ==
    /\ (StepAdds(p) /\ Holds(old, StepLabel(p))) =>
          /\ Len(new) = Len(old)
          /\ \A k \in DOMAIN old :
                /\ new[k].label = old[k].label
                /\ new[k].focal_length =
                      IF old[k].label = StepLabel(p) THEN StepFocal(p)
                      ELSE old[k].focal_length
    /\ (StepAdds(p) /\ ~Holds(old, StepLabel(p))) =>
          new = Append(old, [label |-> StepLabel(p),
                             focal_length |-> StepFocal(p)])
    /\ (~StepAdds(p) /\ Holds(old, StepLabel(p))) =>
          \E k \in DOMAIN old :
              old[k].label = StepLabel(p) /\ new = Without(old, k)
    /\ (~StepAdds(p) /\ ~Holds(old, StepLabel(p))) => new = old

IsDigit(c) == c \in {"1", "2"}

IsSymbol(c) == ~IsDigit(c) /\ c # "."

NumberRuns ==
    {run \in {<<r, from, to>> : r \in DOMAIN schematic,
                                 from \in 1..MaxWidth + 1, to \in 1..MaxWidth + 1} :
        /\ run[2] <= run[3]
        /\ run[3] <= Len(schematic[run[1]])
        /\ \A c \in run[2]..run[3] : IsDigit(schematic[run[1]][c])
        /\ (run[2] > 1 => ~IsDigit(schematic[run[1]][run[2] - 1]))
        /\ (run[3] < Len(schematic[run[1]]) =>
                ~IsDigit(schematic[run[1]][run[3] + 1]))}

RECURSIVE RunValue(_, _, _)
RunValue(r, from, to) ==
    IF from > to THEN 0
    ELSE RunValue(r, from, to - 1) * 10
         + (IF schematic[r][to] = "1" THEN 1 ELSE 2)

TouchesSymbol(run) ==
    \E r \in (run[1] - 1)..(run[1] + 1), c \in (run[2] - 1)..(run[3] + 1) :
        /\ r \in DOMAIN schematic
        /\ c \in DOMAIN schematic[r]
        /\ IsSymbol(schematic[r][c])

RECURSIVE SumOfRuns(_)
SumOfRuns(runs) ==
    IF runs = {} THEN 0
    ELSE SumOfRuns(runs \ {CHOOSE run \in runs : TRUE})
         + RunValue((CHOOSE run \in runs : TRUE)[1],
                    (CHOOSE run \in runs : TRUE)[2],
                    (CHOOSE run \in runs : TRUE)[3])

\* C22: what part1 returns is the sum of the numbers of the schematic that touch
\* at least one symbol (beside, above, below or diagonally), every such number
\* counted once however many symbols it touches.
C22_EachPartNumberOnce ==
    day3_pc = "returned" =>
        day3_result = Some(SumOfRuns({run \in NumberRuns : TouchesSymbol(run)}))

\* ------------------------------------------------------------------ day10 claims
\* The vocabulary of the day10 claim, read off the text: the sides each pipe
\* char opens to (S may open to any), two neighbouring cells are joined when
\* each opens to the other, and a loop through S is a closed path of joined
\* cells from S back to S that enters no cell twice.
Opens(c) ==
    CASE c = "|" -> {"North", "South"}
      [] c = "-" -> {"East", "West"}
      [] c = "L" -> {"North", "East"}
      [] c = "J" -> {"North", "West"}
      [] c = "7" -> {"South", "West"}
      [] c = "F" -> {"South", "East"}
      [] c = "S" -> {"North", "South", "East", "West"}
      [] OTHER -> {}

PipeCells == {p \in (1..MaxPipeColumns + 1) \X (1..MaxPipeRows + 1) :
                p[2] \in DOMAIN pipe_text /\ p[1] \in DOMAIN pipe_text[p[2]]}

PipeAt(p) == pipe_text[p[2]][p[1]]

Toward(p, d) ==
    CASE d = "North" -> <<p[1], p[2] - 1>>
      [] d = "South" -> <<p[1], p[2] + 1>>
      [] d = "East"  -> <<p[1] + 1, p[2]>>
      [] d = "West"  -> <<p[1] - 1, p[2]>>

Opposite(d) ==
    CASE d = "North" -> "South"
      [] d = "South" -> "North"
      [] d = "East"  -> "West"
      [] d = "West"  -> "East"

Joined(p) ==
    {q \in PipeCells :
        \E d \in Opens(PipeAt(p)) :
            q = Toward(p, d) /\ Opposite(d) \in Opens(PipeAt(q))}

\* The cell sets of the loops that continue the path `path` from S.
RECURSIVE LoopsAlong(_)
LoopsAlong(path) ==
    UNION {IF q = path[1]
           THEN (IF Len(path) >= 3 THEN {Range(path)} ELSE {})
           ELSE IF q \in Range(path) THEN {}
           ELSE LoopsAlong(Append(path, q)) : q \in Joined(path[Len(path)])}

StartLoops ==
    UNION {LoopsAlong(<<p>>) : p \in {q \in PipeCells : PipeAt(q) = "S"}}

\* C23: on a pipe text whose S lies on exactly one closed loop, part1 returns
\* half the number of cells of that loop, whatever pipes that are not on the
\* loop lie beside it.
C23_HalfLoopLength ==
    (day10_pc \in {"returned", "panic"} /\ Cardinality(StartLoops) = 1) =>
        /\ day10_pc = "returned"
        /\ \A loop \in StartLoops :
              day10_result = Some(Cardinality(loop) \div 2)

\* ------------------------------------------------------------------ day8 claims
\* The vocabulary of the day8 claim, read off the input: the walk from AAA that
\* takes the chars of the instruction line in order, again and again.
AAA == <<"A", "A", "A">>

ZZZ == <<"Z", "Z", "Z">>

Described(name) == \E i \in DOMAIN node_descriptions : node_descriptions[i].current = name

Successor(name, c) ==
    IF c = "L"
    THEN node_descriptions[CHOOSE i \in DOMAIN node_descriptions :
                                node_descriptions[i].current = name].left
    ELSE node_descriptions[CHOOSE i \in DOMAIN node_descriptions :
                                node_descriptions[i].current = name].right

RECURSIVE StandsAt(_)
StandsAt(n) ==
    IF n = 0 THEN AAA
    ELSE Successor(StandsAt(n - 1),
                   instruction_line[((n - 1) % Len(instruction_line)) + 1])

WalkReachesZZZ ==
    /\ \A name \in {AAA, <<"B", "B", "B">>, ZZZ} : Described(name)
    /\ \A i \in DOMAIN instruction_line : instruction_line[i] \in {"L", "R"}
    /\ \E n \in 0..MaxWalk : StandsAt(n) = ZZZ

\* C24: for every network in which the walk from AAA reaches ZZZ, walks through
\* a node that is its own left or right successor included, part1 returns the
\* least number of steps after which the walk stands on ZZZ.
C24_LeastSteps ==
    (day8_pc \in {"returned", "panic"} /\ WalkReachesZZZ) =>
        /\ day8_pc = "returned"
        /\ \E n \in 0..MaxWalk :
              /\ day8_result = Some(n)
              /\ StandsAt(n) = ZZZ
              /\ \A m \in 0..(n - 1) : StandsAt(m) # ZZZ

\* ------------------------------------------------------------------ day16 claims, continued
\* C25: a tick handles the rays that were active when it began, each once and in
\* order; a ray that stays active has moved exactly one cell in the direction
\* it had; a secondary ray made in the tick is left at the splitter cell its
\* parent entered, behind the rays that stayed, and the next tick begins with
\* exactly the rays the tick before left, so the secondary takes its first
\* step there.
C25_OneCellPerTick ==
    /\ [](Ticked =>
            /\ Len(last.steps) = Len(last.beams)
            /\ \A i \in DOMAIN last.steps :
                  /\ last.steps[i].from = last.beams[i]
                  /\ last.steps[i].kept =>
                        last.steps[i].to.current =
                            Moved(last.beams[i].current, last.beams[i].direction)
            /\ Len(beams) = Len(Survivors) + Len(last.added)
            /\ \A j \in DOMAIN last.added :
                  /\ beams[Len(Survivors) + j] = last.added[j]
                  /\ \E i \in DOMAIN last.steps :
                        /\ last.steps[i].extra = Some(last.added[j])
                        /\ last.added[j].current =
                              Moved(last.beams[i].current, last.beams[i].direction)
                        /\ Splits(ElementAt(last.added[j].current),
                                  last.beams[i].direction))
    /\ [][ticks' = ticks + 1 => last'.beams = beams]_vars

\* A tick that began with two rays: both moved one cell and stayed, and one of
\* them entered a splitter and left a secondary ray there.
C25_Witness ==
    /\ Ticked
    /\ Len(last.beams) = 2
    /\ \A i \in DOMAIN last.steps : last.steps[i].kept
    /\ Len(last.added) = 1
    /\ Len(beams) = 3
    /\ beams[3].current \in {beams[1].current, beams[2].current}

\* C26: the visited check is on the pair of position and direction: a ray that
\* enters a cell already in EnergizedSet and leaves it with a direction whose
\* pair with that cell is not in VisitedState is not retired; it is among the
\* active rays after the tick, and its pair is recorded.
C26_KeyedOnPositionAndDirection ==
    Ticked =>
        \A s \in LastSteps :
            (/\ s.loc # None
             /\ s.to.current \in last.energized
             /\ s.to \notin s.seen)
                => /\ s.kept
                   /\ s.to \in Range(beams)
                   /\ s.to \in previous_steps

\* A tick in which a ray entered a cell that was energized and recorded with
\* another direction, and stayed active.
C26_Witness ==
    /\ Ticked
    /\ \E s \in LastSteps :
          /\ s.kept
          /\ s.to.current \in last.energized
          /\ \E seen \in last.previous_steps :
                seen.current = s.to.current /\ seen.direction # s.to.direction

\* C27: when a Beams value has been constructed and after every tick, energized
\* is exactly the set of positions of the pairs in previous_steps; it is not
\* empty, every cell in it is on the grid, and its size is between 1 and
\* num_rows * num_columns.
C27_EnergizedIsVisitedPositions ==
    Running =>
        /\ energized = {step.current : step \in previous_steps}
        /\ energized # {}
        /\ \A index \in energized : get(contraption, index) # None
        /\ Cardinality(energized) >= 1
        /\ Cardinality(energized) <= num_rows(contraption) * num_columns(contraption)

\* After a tick, a run with three energized cells, one of them recorded with
\* two directions.
C27_Witness ==
    /\ Ticked
    /\ Cardinality(energized) >= 3
    /\ Cardinality(previous_steps) > Cardinality(energized)
    /\ last.energized # energized

\* The Beams value Beams::new returns on a grid whose cell (0,0) exists and does
\* not split a ray heading East, by its fields.
Beams_new_of(grid) ==
    LET nd == get_next_direction(get(grid, <<0, 0>>)[1], "East")
    IN  [beams          |-> <<MovingBeam(<<0, 0>>, nd[1])>>,
         energized      |-> {<<0, 0>>},
         previous_steps |-> {MovingBeam(<<0, 0>>, nd[1])}]

\* part1 on such a grid: Beams::new, the loop on next_bounce, energized.len().
part1_count(grid) ==
    LET b == Beams_new_of(grid)
    IN  get_num_energized(grid, b.beams, b.energized, b.previous_steps)

\* Cell (0,0) exists and sends a ray heading East on as one ray.
OriginDoesNotSplit ==
    /\ get(contraption, <<0, 0>>) # None
    /\ get_next_direction(get(contraption, <<0, 0>>)[1], "East")[2] = None

\* C28: on a non-empty rectangular grid whose cell (0,0) does not split a ray
\* heading East, the run of part2 that starts at (0,0) heading East begins in
\* the state Beams::new builds, its count is the count of part1, and the count
\* part2 returns is at least the count of part1.
C28_Part2AtLeastPart1 ==
    (entry = "part2" /\ OriginDoesNotSplit) =>
        /\ (pc = "run" /\ ticks = 0 /\ start = Some(MovingBeam(<<0, 0>>, "East")))
              => [beams |-> beams, energized |-> energized,
                  previous_steps |-> previous_steps] = Beams_new_of(contraption)
        /\ pc = "returned" =>
              /\ \E run \in Range(finished) :
                    /\ run.start_beam = MovingBeam(<<0, 0>>, "East")
                    /\ run.energized = part1_count(contraption)
              /\ result[1] >= part1_count(contraption)

\* part2 has returned on a grid whose cell (0,0) is a mirror, with a count
\* greater than the count of part1.
C28_Witness ==
    /\ pc = "returned"
    /\ entry = "part2"
    /\ OriginDoesNotSplit
    /\ get(contraption, <<0, 0>>) # Some("EmptySpace")
    /\ result[1] > part1_count(contraption)

\* C29: on every grid the parser accepts, the grid without a row and the grid
\* with an empty first row among them, part2 builds its start beams without a
\* panic, no subtraction underflows, and every start beam is on the grid.
C29_EdgeEnumerationSafe ==
    entry = "part2" =>
        /\ pc # "panic"
        /\ ~part2_underflows(contraption)
        /\ \A i \in DOMAIN start_beams :
              get(contraption, start_beams[i].current) # None

\* ------------------------------------------------------------------ day15 claims, continued
\* C30: while and after build_lens_hashmap applies the operations, no box holds
\* two lenses with one label, every lens lies in the box whose index is the hash
\* of its label, every operation's box index is one of 0..255, and the box
\* lookup has not failed.
C30_BoxesWellFormed ==
    /\ day15_pc # "unwrap_err"
    /\ \A i \in DOMAIN operations : operations[i].box_index \in AllBoxes
    /\ \A b \in DOMAIN boxes :
          /\ b \in AllBoxes
          /\ \A i \in DOMAIN boxes[b] :
                /\ hash_str(boxes[b][i].label) = b
                /\ \A j \in DOMAIN boxes[b] :
                      boxes[b][i].label = boxes[b][j].label => i = j

\* Three operations applied: box 0 holds two lenses and box 1 holds one.
C30_Witness ==
    /\ day15_pc = "built"
    /\ consumed = 3
    /\ Len(boxes[0]) = 2
    /\ Len(boxes[1]) = 1

====
